---- MODULE Spec2Model ----
(***************************************************************************)
(* Download task orchestration of Openlist-Ani.                            *)
(*                                                                         *)
(*   core/download/model/task.py   DownloadState, STATE_TRANSITIONS,       *)
(*                                 DownloadTask                            *)
(*   core/download/manager.py      DownloadManager                         *)
(*                                                                         *)
(* The state names are those of the source: DOWNLOADED is the state the    *)
(* design text calls TRANSFERRING, POST_PROCESSING the one it calls        *)
(* CLEANING_UP.                                                            *)
(*                                                                         *)
(* The manager runs on one asyncio event loop.  A coroutine runs without   *)
(* interruption from one suspension point to the next, so an action of the *)
(* manager specification is the whole stretch of code between two          *)
(* suspension points; the states of the model are the suspension points.   *)
(* Timestamps, paths and the resource descriptor take no part in the       *)
(* control flow modelled here and are left out of the task record.  The    *)
(* state file is written on a working file system.                         *)
(***************************************************************************)
EXTENDS Integers, Sequences, FiniteSets, TLC

\* ------------------------------------------------------------------ bounds
NTasks == 2
MaxRetries == 1
MaxConcurrent == 1
MaxCallbacks == 2

\* the calls made on the client, its permits (max_concurrent_requests), the
\* largest max_retries it is constructed with
NCalls == 3

MaxConcurrentRequests == 2

ClientMaxRetries == 3

\* retry_backoff_seconds, in tenths of a second
RetryBackoff == 8

\* OpenListDownloader._TRANSFER_CHECK_MAX_RETRIES
TRANSFER_CHECK_MAX_RETRIES == 3

Ids == 1..NTasks

\* ------------------------------------------------------ task.py: the states
PENDING == "PENDING"
DOWNLOADING == "DOWNLOADING"
DOWNLOADED == "DOWNLOADED"
POST_PROCESSING == "POST_PROCESSING"
COMPLETED == "COMPLETED"
FAILED == "FAILED"
CANCELLED == "CANCELLED"

DownloadState == {PENDING, DOWNLOADING, DOWNLOADED, POST_PROCESSING, COMPLETED, FAILED, CANCELLED}

\* the textual value of each member of the StrEnum, as json.dump writes it
StateValue == [s \in DownloadState |->
    CASE s = PENDING -> "pending"
      [] s = DOWNLOADING -> "downloading"
      [] s = DOWNLOADED -> "downloaded"
      [] s = POST_PROCESSING -> "processing"
      [] s = COMPLETED -> "completed"
      [] s = FAILED -> "failed"
      [] s = CANCELLED -> "cancelled"]

STATE_TRANSITIONS == [s \in DownloadState |->
    CASE s = PENDING -> {DOWNLOADING, CANCELLED, FAILED}
      [] s = DOWNLOADING -> {DOWNLOADED, FAILED, CANCELLED}
      [] s = DOWNLOADED -> {POST_PROCESSING, FAILED, CANCELLED}
      [] s = POST_PROCESSING -> {COMPLETED, FAILED, CANCELLED}
      [] s = COMPLETED -> {}
      [] s = FAILED -> {PENDING}
      [] s = CANCELLED -> {PENDING}]

\* Python's None, for the optional fields
None == "<None>"

\* the text of an InvalidStateTransitionError
InvalidText == "Invalid state transition"

\* website/model.py: the members of VideoQuality and of LanguageType that are
\* used here, and their textual values (those of LanguageType are single
\* Chinese characters, written here by their meaning)
VideoQuality == {"k1080p", "k720p", "kUnknown"}

QualityValue == [q \in VideoQuality |->
    CASE q = "k1080p" -> "1080p"
      [] q = "k720p" -> "720p"
      [] q = "kUnknown" -> "unknown"]

LanguageType == {"kChs", "kJp", "kUnknown"}

LanguageValue == [l \in LanguageType |->
    CASE l = "kChs" -> "simplified"
      [] l = "kJp" -> "japanese"
      [] l = "kUnknown" -> "unknown language"]

\* AnimeResourceInfo: the fields of a resource the manager and the codec read
NoResource == [download_url |-> "", title |-> "", quality |-> "kUnknown", languages |-> << >>]

\* a freshly constructed DownloadTask (dataclass defaults, max_retries given);
\* id, a uuid4 in the code, is 0 until the task is given its place among Ids;
\* extra_data, the map the downloader keeps its own entries in, as its set of keys
NewTask(mr) == [id |-> 0, state |-> PENDING, error_message |-> None, retry_count |-> 0,
                max_retries |-> mr, resource_info |-> NoResource, extra_data |-> {}]

\* DownloadTask.from_resource_info(resource_info, save_path, max_retries = mr)
from_resource_info(resource_info, mr) == [NewTask(mr) EXCEPT !.resource_info = resource_info]

\* ------------------------------------------------- task.py: the operations
\* Each operation yields the task as it is left and whether it raised.

update_state_unchecked(tk, new_state) == [task |-> [tk EXCEPT !.state = new_state], raised |-> FALSE]

update_state(tk, new_state) ==
    IF new_state \notin STATE_TRANSITIONS[tk.state]
    THEN [task |-> tk, raised |-> TRUE]
    ELSE [task |-> [tk EXCEPT !.state = new_state], raised |-> FALSE]

mark_failed(tk, error_message) == update_state([tk EXCEPT !.error_message = error_message], FAILED)

can_retry_inclusive(tk) == tk.state = FAILED /\ tk.retry_count <= tk.max_retries

can_retry_any_state(tk) == tk.retry_count < tk.max_retries

can_retry(tk) == tk.state = FAILED /\ tk.retry_count < tk.max_retries

retry_keeps_count(tk) ==
    IF ~can_retry(tk)
    THEN [task |-> tk, raised |-> TRUE]
    ELSE [task |-> [tk EXCEPT !.error_message = None, !.state = PENDING], raised |-> FALSE]

retry(tk) ==
    IF ~can_retry(tk)
    THEN [task |-> tk, raised |-> TRUE]
    ELSE [task |-> [tk EXCEPT !.retry_count = @ + 1, !.error_message = None, !.state = PENDING],
          raised |-> FALSE]

\* ------------------------------------------------- manager.py: persistence
TerminalStates == {COMPLETED, FAILED, CANCELLED}

\* the value of a table slot that holds no task
NoTask == [id |-> 0, state |-> "<absent>", error_message |-> None, retry_count |-> 0,
           max_retries |-> 0, resource_info |-> NoResource, extra_data |-> {}]

\* asdict on the resource followed by json.dump: the members of the enums
\* become their texts, None stays null
resource_to_dict(r) ==
    [download_url |-> r.download_url, title |-> r.title,
     quality |-> IF r.quality = None THEN None ELSE QualityValue[r.quality],
     languages |-> [i \in 1..Len(r.languages) |-> LanguageValue[r.languages[i]]]]

\* DownloadTask.to_dict followed by json.dump: the state becomes its text
to_dict(tk) == [id |-> tk.id, state |-> StateValue[tk.state], error_message |-> tk.error_message,
                retry_count |-> tk.retry_count, max_retries |-> tk.max_retries,
                resource_info |-> resource_to_dict(tk.resource_info),
                extra_data |-> tk.extra_data]

\* DownloadState(value): the member with that text; a ValueError when there is none
StateOfValue(v) == IF \E s \in DownloadState : StateValue[s] = v
                   THEN [ok |-> TRUE, state |-> CHOOSE s \in DownloadState : StateValue[s] = v]
                   ELSE [ok |-> FALSE, state |-> None]

\* from_dict, lines 163-178: VideoQuality(text) and LanguageType(text) for the
\* texts of the record, a ValueError when a text is no value of the enum
QualityOfValue(v) ==
    IF v = None THEN None
    ELSE IF \E q \in VideoQuality : QualityValue[q] = v
    THEN CHOOSE q \in VideoQuality : QualityValue[q] = v ELSE "<error>"

LanguageOfValue(v) ==
    IF \E l \in LanguageType : LanguageValue[l] = v
    THEN CHOOSE l \in LanguageType : LanguageValue[l] = v ELSE "<error>"

resource_from_dict_unconverted(d) == [ok |-> TRUE, resource |-> d]

resource_from_dict(d) ==
    [ok |-> /\ QualityOfValue(d.quality) # "<error>"
            /\ \A i \in 1..Len(d.languages) : LanguageOfValue(d.languages[i]) # "<error>",
     resource |-> [download_url |-> d.download_url, title |-> d.title,
                   quality |-> QualityOfValue(d.quality),
                   languages |-> [i \in 1..Len(d.languages) |-> LanguageOfValue(d.languages[i])]]]

from_dict(d) == LET st == StateOfValue(d.state) IN
    [ok |-> st.ok /\ resource_from_dict(d.resource_info).ok,
     task |-> [id |-> d.id, state |-> st.state, error_message |-> d.error_message,
               retry_count |-> d.retry_count, max_retries |-> d.max_retries,
               resource_info |-> resource_from_dict(d.resource_info).resource,
               extra_data |-> d.extra_data]]

Present(ev) == {i \in Ids : ev[i] # NoTask}

save_state_unfiltered(ev) == [i \in Present(ev) |-> to_dict(ev[i])]

\* _save_state: the records of the non-terminal tasks of the table
save_state(ev) == [i \in {j \in Present(ev) : ev[j].state \notin TerminalStates} |-> to_dict(ev[i])]

\* _load_state: the non-terminal records of the file; the empty table as soon
\* as one record fails to deserialize
load_state_partial(file) ==
    [i \in Ids |-> IF i \in DOMAIN file /\ from_dict(file[i]).ok
                       /\ from_dict(file[i]).task.state \notin TerminalStates
                   THEN from_dict(file[i]).task ELSE NoTask]

load_state_restarts(file) ==
    IF \E i \in DOMAIN file : ~from_dict(file[i]).ok
    THEN [i \in Ids |-> NoTask]
    ELSE [i \in Ids |-> IF i \in DOMAIN file /\ from_dict(file[i]).task.state \notin TerminalStates
                        THEN [from_dict(file[i]).task EXCEPT !.state = PENDING] ELSE NoTask]

load_state(file) ==
    IF \E i \in DOMAIN file : ~from_dict(file[i]).ok
    THEN [i \in Ids |-> NoTask]
    ELSE [i \in Ids |-> IF i \in DOMAIN file /\ from_dict(file[i]).task.state \notin TerminalStates
                        THEN from_dict(file[i]).task ELSE NoTask]

\* _load_state, lines 89-110, over the file as it is found: nothing is loaded
\* from a missing file; an exception of open(), of json.load or of from_dict
\* is logged and leaves the table empty
load_file(raw) ==
    IF ~raw.exists \/ ~raw.parses THEN [i \in Ids |-> NoTask] ELSE load_state(raw.data)

\* a snapshot that holds a record whose state is a terminal one
HoldsTerminal(snap) == \E i \in DOMAIN snap : snap[i].state \in {StateValue[s] : s \in TerminalStates}

\* is_downloading: the tasks of the table are gone through one by one, and the
\* first whose download_url is the resource's ends the search
RECURSIVE AnyUrlIs(_, _, _)
AnyUrlIs(ev, ids, url) ==
    IF ids = {} THEN FALSE
    ELSE LET i == CHOOSE j \in ids : \A k \in ids : j <= k IN
         IF ev[i].resource_info.download_url = url THEN TRUE
         ELSE AnyUrlIs(ev, ids \ {i}, url)

is_downloading_same_resource(ev, resource_info) ==
    \E i \in Present(ev) : ev[i].resource_info = resource_info

is_downloading(ev, resource_info) == AnyUrlIs(ev, Present(ev), resource_info.download_url)

\* ---------------------------------------------------- manager.py: dispatch
\* the states that have a handler (DownloadManager._handlers)
HandlerStates == {PENDING, DOWNLOADING, DOWNLOADED, POST_PROCESSING}

NoHandlerText == "No handler for state"

\* What a handler call can end with.  A result carries success, next_state,
\* delay_seconds and error_message, as _dispatch_state reads them; a handler
\* can also raise.  next_state is any state or None: _dispatch_state has a
\* branch for a task that arrives CANCELLED and one for a state without a
\* handler, and a state named by a result is the only way to either.
NamedStates == DownloadState \cup {None}

ExceptionTexts == {"boom", ""}

FailMessages == {None, "", "err"}

HandlerResults ==
    [kind : {"result"}, success : {TRUE}, next_state : NamedStates, delay_seconds : {0, 1},
     error_message : {None}]
    \cup [kind : {"result"}, success : {FALSE}, next_state : {None}, delay_seconds : {0},
          error_message : FailMessages]
    \cup [kind : {"raise"}, success : {FALSE}, next_state : {None}, delay_seconds : {0},
          error_message : ExceptionTexts]

\* the results of a handler that is done with its state (it names the next
\* state of the way to COMPLETED), that asks to be called again after a
\* delay, and that reports a failure
NextOf == [s \in HandlerStates |->
    CASE s = PENDING -> DOWNLOADING
      [] s = DOWNLOADING -> DOWNLOADED
      [] s = DOWNLOADED -> POST_PROCESSING
      [] s = POST_PROCESSING -> COMPLETED]

DoneResult(tk) == [kind |-> "result", success |-> TRUE, next_state |-> NextOf[tk.state],
                   delay_seconds |-> 0, error_message |-> None]

PollResult(tk) == [kind |-> "result", success |-> TRUE, next_state |-> tk.state,
                   delay_seconds |-> 1, error_message |-> None]

FailResult(message) == [kind |-> "result", success |-> FALSE, next_state |-> None,
                        delay_seconds |-> 0, error_message |-> message]

\* Python's "x or default" on an optional string
OrDefault(x, default) == IF x \in {None, ""} THEN default ELSE x

IsPoll(tk, r) == r.kind = "result" /\ r.success /\ r.next_state \in {None, tk.state}

\* _dispatch_state, lines 263-267: the transition to the state the result
\* names, followed by _save_state unless update_state raised
AdvanceWithoutSave(tk, next_state) ==
    [task |-> update_state(tk, next_state).task, raised |-> update_state(tk, next_state).raised,
     saved |-> FALSE]

Advance(tk, next_state) ==
    [task |-> update_state(tk, next_state).task, raised |-> update_state(tk, next_state).raised,
     saved |-> ~update_state(tk, next_state).raised]

\* what the except clause of _dispatch_state does with an exception of text e
\* raised in its try block: mark_failed(str(e)), which may raise in its turn
Caught(tk, e) ==
    [task |-> mark_failed(tk, e).task,
     route |-> IF mark_failed(tk, e).raised THEN "escape" ELSE "failure", saved |-> FALSE]

\* _dispatch_state, line 263: update_state is called only for another state
\* than the task's own
names_other_state_always(tk, next_state) == TRUE

names_other_state(tk, next_state) == next_state # tk.state

\* _dispatch_state, lines 248-283: what the result of the handler does to the
\* task, and where control goes next
HandlerStep(tk, r) ==
    IF r.kind = "raise"
    THEN Caught(tk, r.error_message)
    ELSE IF ~r.success
    THEN LET m == mark_failed(tk, OrDefault(r.error_message, "Handler failed")) IN
         IF m.raised THEN Caught(m.task, InvalidText)
         ELSE [task |-> m.task, route |-> "failure", saved |-> FALSE]
    ELSE LET next_state == IF r.next_state = None THEN tk.state ELSE r.next_state
             after == IF r.delay_seconds > 0 THEN "sleep" ELSE "dispatch" IN
         IF names_other_state(tk, next_state)
         THEN LET u == Advance(tk, next_state) IN
              IF u.raised
              THEN Caught(tk, InvalidText)
              ELSE [task |-> u.task, route |-> after, saved |-> u.saved]
         ELSE [task |-> tk, route |-> after, saved |-> FALSE]

\* The run of the dispatcher from a point of _dispatch_state /
\* _handle_task_failure / _finalize_task to the next suspension point:
\* acc.saves lists the task as it is at each _save_state call of the run,
\* acc.retries counts the retry() calls.
RECURSIVE Run(_, _, _)
Run(tk, route, acc) ==
    CASE route = "sleep" -> [task |-> tk, pc |-> "sleep", saves |-> acc.saves, retries |-> acc.retries]
      [] route = "escape" -> [task |-> tk, pc |-> "raised", saves |-> acc.saves, retries |-> acc.retries]
      [] route = "failure" ->
            LET a1 == [acc EXCEPT !.saves = Append(@, tk)] IN
            IF can_retry(tk)
            THEN LET rt == retry(tk).task IN
                 Run(rt, "dispatch", [saves |-> Append(a1.saves, rt), retries |-> a1.retries + 1])
            ELSE Run(tk, "finalize_error", a1)
      [] route = "dispatch" ->
            IF tk.state = COMPLETED THEN Run(tk, "finalize_complete", acc)
            ELSE IF tk.state = CANCELLED THEN Run(tk, "finalize_error", acc)
            ELSE IF tk.state \notin HandlerStates
            THEN LET m == mark_failed(tk, NoHandlerText) IN
                 IF m.raised
                 THEN Run([m.task EXCEPT !.error_message = InvalidText], "escape", acc)
                 ELSE Run(m.task, "failure", acc)
            ELSE [task |-> tk, pc |-> "handler", saves |-> acc.saves, retries |-> acc.retries]
      [] OTHER -> [task |-> tk, pc |-> route, saves |-> Append(acc.saves, tk), retries |-> acc.retries]

NoSaves == [saves |-> <<>>, retries |-> 0]

\* the resources submitted: two with the same download_url and different
\* titles, one with another download_url
Resource1 == [download_url |-> "u1", title |-> "a", quality |-> "k1080p",
              languages |-> <<"kChs", "kJp">>]

Resource2 == [download_url |-> "u1", title |-> "b", quality |-> "k1080p",
              languages |-> <<"kChs", "kJp">>]

Resource3 == [download_url |-> "u2", title |-> "a", quality |-> "k1080p",
              languages |-> <<"kChs", "kJp">>]

Resources == {Resource1, Resource2, Resource3}

\* ------------------------------------------------------------- the state
VARIABLES
    events,          \* DownloadManager._events: id -> task, NoTask when absent
    state_file,      \* the content of the state file: id -> persisted record
    pc,              \* where the coroutine that processes each task stands
    sem_value,       \* DownloadManager._semaphore: free permits
    sem_waiters,     \* ... and its queue of waiting coroutines
    on_complete_cbs, \* DownloadManager._on_complete, in registration order
    on_error_cbs,    \* DownloadManager._on_error, in registration order
    cb,              \* the callback loop of each task being finalized
    \* history
    fails,           \* handler-chain failures of each task
    retries_granted, \* retry() calls the dispatcher made on each task
    ran,             \* how often each callback list was run for each task
    removed,         \* the task was removed from the table by _finalize_task
    final,           \* state and retry counters of each task when _finalize_task took it
    on_failed_calls, \* calls of the adapter's on_failed hook for each task
    returned,        \* how the download() call that submitted each task ended
    asked,           \* the last is_downloading call and its answer
    handled,         \* the handler calls that ended, for each task: state and kind of result
    called,          \* the callbacks that ended, for each task: list, callback, raised or not
    running_loop,    \* was the manager constructed inside a running event loop
    wrote_terminal,  \* some snapshot written so far held a task in a terminal state
    \* a task driven directly through its own methods
    task,            \* the task
    call,            \* the last method call on it and how it ended
    \* the client of the remote service (downloader/api/openlist.py)
    client_configured,  \* the max_retries the client was constructed with
    client_max_retries, \* OpenListClient._max_retries
    client_sem,         \* OpenListClient._semaphore: free permits
    client_waiters,     \* ... and its queue of waiting calls
    req,                \* each _request call: where it stands, its attempt, its sleeps
    remote,             \* the remote service: its download job and its files
    \* the coroutines
    contexts            \* for each task id, the live coroutines that dispatch that task

vars == <<events, state_file, pc, sem_value, sem_waiters, on_complete_cbs, on_error_cbs, cb,
          fails, retries_granted, ran, removed, final, on_failed_calls, wrote_terminal,
          returned, asked, handled, called, running_loop, task, call,
          client_configured, client_max_retries, client_sem, client_waiters, req, remote, contexts>>

\* what lies outside the manager and the task
side_vars == <<client_configured, client_max_retries, client_sem, client_waiters, req, remote>>

mgr_vars == <<events, state_file, pc, sem_value, sem_waiters, on_complete_cbs, on_error_cbs, cb,
              fails, retries_granted, ran, removed, final, on_failed_calls, wrote_terminal,
              returned, asked, handled, called, running_loop, side_vars, contexts>>

\* the record of the calls made, kept by the specifications that follow one task
hist == <<handled, called, side_vars, contexts>>

NoCall == [op |-> "none", arg |-> None, before |-> NewTask(0), raised |-> FALSE]

NoCb == [list |-> "none", idx |-> 0, msg |-> None]

NoRan == [complete |-> 0, error |-> 0]

NoAsk == [resource_info |-> NoResource, answer |-> FALSE]

NoFinal == [state |-> None, retry_count |-> 0, max_retries |-> 0]

FinalOf(tk) == [state |-> tk.state, retry_count |-> tk.retry_count, max_retries |-> tk.max_retries]

\* --------------------------------------- api/openlist.py: the client
\* OpenListClient.__init__, line 39: the attempts of a request
client_retries(max_retries) == IF max_retries < 1 THEN 1 ELSE max_retries

\* _request, line 61: the sleep after the failure of attempt number `attempt`
backoff_constant(attempt) == RetryBackoff

backoff(attempt) == RetryBackoff * 2^(attempt - 1)

Calls == 1..NCalls

\* a _request call: where it stands, the number of its attempt, the exceptions
\* its attempts ended with, the sleeps it made, what it returned
NoReq == [pc |-> "idle", attempt |-> 0, errors |-> << >>, slept |-> << >>, result |-> None]

\* the remote service before anything was asked of it: no job, no files in
\* the temporary directory of the task nor in its destination directory
NoRemote == [job |-> "none", yields |-> "a.mkv", tmp |-> {}, final |-> {}]

ClientInit(max_retries) ==
    /\ client_configured = max_retries
    /\ client_max_retries = client_retries(max_retries)
    /\ client_sem = MaxConcurrentRequests
    /\ client_waiters = << >>
    /\ req = [c \in Calls |-> NoReq]
    /\ remote = NoRemote

\* the manager after DownloadManager.__init__ over a missing state file
MgrInit ==
    /\ events = [i \in Ids |-> NoTask]
    /\ state_file = << >>
    /\ pc = [i \in Ids |-> "none"]
    /\ sem_value = MaxConcurrent
    /\ sem_waiters = << >>
    /\ on_complete_cbs = << >>
    /\ on_error_cbs = << >>
    /\ cb = [i \in Ids |-> NoCb]
    /\ fails = [i \in Ids |-> 0]
    /\ retries_granted = [i \in Ids |-> 0]
    /\ ran = [i \in Ids |-> NoRan]
    /\ removed = [i \in Ids |-> FALSE]
    /\ final = [i \in Ids |-> NoFinal]
    /\ on_failed_calls = [i \in Ids |-> 0]
    /\ wrote_terminal = FALSE
    /\ returned = [i \in Ids |-> "none"]
    /\ asked = NoAsk
    /\ handled = [i \in Ids |-> << >>]
    /\ called = [i \in Ids |-> << >>]
    /\ running_loop = TRUE
    /\ ClientInit(ClientMaxRetries)
    /\ contexts = [i \in Ids |-> 0]

Init ==
    /\ MgrInit
    /\ task = NewTask(0)
    /\ call = NoCall

\* ------------------------------------------------- the permit pool (asyncio)
\* Semaphore.release: the permit goes to the first waiter when there is one
ReleasePermitUnwoken(keep) ==
    /\ sem_waiters' = sem_waiters
    /\ sem_value' = sem_value + 1
    /\ pc' = keep

ReleasePermit(keep) ==
    IF sem_waiters # << >>
    THEN /\ sem_waiters' = Tail(sem_waiters)
         /\ sem_value' = sem_value
         /\ pc' = [keep EXCEPT ![Head(sem_waiters)] = "granted"]
    ELSE /\ sem_waiters' = sem_waiters
         /\ sem_value' = sem_value + 1
         /\ pc' = keep

\* Semaphore.locked
SemLockedAlwaysFree == FALSE

SemLocked == sem_value = 0 \/ sem_waiters # << >>

RemoveWaiter(q, t) == SelectSeq(q, LAMBDA x : x # t)

\* ---------------------------------------- manager.py: one run of a coroutine
\* _remove_task_from_events: the table without task t
remove_task_from_events(ev, t) == [ev EXCEPT ![t] = NoTask]

\* _run_finalize_callbacks: the list to run and the message handed to it
CallbackList(kind) == IF kind = "complete" THEN on_complete_cbs ELSE on_error_cbs

ErrorArgument(tk) == OrDefault(tk.error_message, "Unknown error")

FinalizeKindSwapped(p) == IF p = "finalize_complete" THEN "error" ELSE "complete"

FinalizeKind(p) == IF p = "finalize_complete" THEN "complete" ELSE "error"

IsFinalize(p) == p \in {"finalize_complete", "finalize_error"}

\* download, line 318: the value returned once _process_task has returned
download_returns(tk) == tk.state = COMPLETED

\* how a download() call ended: with a value, or with an exception
Ret(b) == IF b THEN "true" ELSE "false"

\* The effect of a run of task t's coroutine that ends as `out` says (see Run),
\* on a table `ev` and after the snapshots `before` were already written.
Settle(t, ev, before, out, failed) ==
    LET written == before \o [i \in 1..Len(out.saves) |-> save_state([ev EXCEPT ![t] = out.saves[i]])]
        kind == FinalizeKind(out.pc)
        empty == IsFinalize(out.pc) /\ CallbackList(kind) = << >>
        ends == empty \/ out.pc = "raised"
        newpc == IF empty THEN "done" ELSE IF IsFinalize(out.pc) THEN "callbacks" ELSE out.pc
    IN
    /\ events' = IF empty THEN remove_task_from_events([ev EXCEPT ![t] = out.task], t)
                 ELSE [ev EXCEPT ![t] = out.task]
    /\ wrote_terminal' = (wrote_terminal \/ \E i \in 1..Len(written) : HoldsTerminal(written[i]))
    /\ state_file' = IF written = << >> THEN state_file ELSE written[Len(written)]
    /\ IF ends
       THEN ReleasePermit([pc EXCEPT ![t] = newpc])
       ELSE /\ pc' = [pc EXCEPT ![t] = newpc]
            /\ UNCHANGED <<sem_value, sem_waiters>>
    /\ cb' = IF IsFinalize(out.pc) /\ ~empty
             THEN [cb EXCEPT ![t] = [list |-> kind, idx |-> 1,
                                     msg |-> IF kind = "error" THEN ErrorArgument(out.task) ELSE None]]
             ELSE cb
    /\ ran' = IF IsFinalize(out.pc) THEN [ran EXCEPT ![t][kind] = @ + 1] ELSE ran
    /\ removed' = [removed EXCEPT ![t] = @ \/ empty]
    /\ final' = IF IsFinalize(out.pc) THEN [final EXCEPT ![t] = FinalOf(out.task)] ELSE final
    /\ fails' = [fails EXCEPT ![t] = @ + (IF failed THEN 1 ELSE 0)]
    /\ retries_granted' = [retries_granted EXCEPT ![t] = @ + out.retries]
    /\ returned' = IF ends /\ returned[t] = "running"
                   THEN [returned EXCEPT ![t] = IF out.pc = "raised" THEN "raised"
                                                ELSE Ret(download_returns(out.task))]
                   ELSE returned
    /\ UNCHANGED <<on_complete_cbs, on_error_cbs, on_failed_calls, task, call, asked, running_loop>>

\* --------------------------------------------------- manager.py: the actions
\* _process_task up to the first suspension point: take a permit and call the
\* handler of the task's state, or queue for a permit
Enter(t, ev) ==
    IF SemLocked
    THEN /\ pc' = [pc EXCEPT ![t] = "wait_sem"]
         /\ sem_waiters' = Append(sem_waiters, t)
         /\ UNCHANGED sem_value
    ELSE /\ Run(ev[t], "dispatch", NoSaves).pc = "handler"
         /\ pc' = [pc EXCEPT ![t] = "handler"]
         /\ sem_value' = sem_value - 1
         /\ UNCHANGED sem_waiters

\* task.py, line 75: the ids a new task may get, those that no task ever had
\* (p gives each id's use)
uuid4_any(p) == Ids

uuid4(p) == {i \in Ids : p[i] = "none"}

\* download(resource_info, save_path): a new PENDING task is put into the table
\* and the table is saved; then _process_task.  download() itself creates the
\* task with the default max_retries; from_resource_info(..., max_retries = N)
\* creates it with any other limit.  The generated ids are numbered in the
\* order of their creation.
Download(t, mr, resource_info) ==
    /\ t \in uuid4(pc)
    /\ \A i \in Ids : i < t => pc[i] # "none"
    /\ LET ev == [events EXCEPT ![t] = [from_resource_info(resource_info, mr) EXCEPT !.id = t]] IN
       /\ events' = ev
       /\ wrote_terminal' = (wrote_terminal \/ HoldsTerminal(save_state(ev)))
       /\ state_file' = save_state(ev)
       /\ Enter(t, ev)
    /\ returned' = [returned EXCEPT ![t] = "running"]
    /\ UNCHANGED <<on_complete_cbs, on_error_cbs, cb, fails, retries_granted,
                   ran, removed, final, on_failed_calls, task, call, asked, running_loop>>

\* a recovered task's background coroutine starts: _process_task
ProcessTask(t) ==
    /\ pc[t] = "scheduled"
    /\ Enter(t, events)
    /\ UNCHANGED wrote_terminal
    /\ UNCHANGED <<events, state_file, on_complete_cbs, on_error_cbs, cb, fails,
                   retries_granted, ran, removed, final, on_failed_calls, returned, task, call, asked, running_loop>>

\* a waiter that was handed a permit resumes: _dispatch_state calls the handler
Resume(t) ==
    /\ pc[t] = "granted"
    /\ Run(events[t], "dispatch", NoSaves).pc = "handler"
    /\ pc' = [pc EXCEPT ![t] = "handler"]
    /\ UNCHANGED wrote_terminal
    /\ UNCHANGED <<events, state_file, sem_value, sem_waiters, on_complete_cbs, on_error_cbs, cb,
                   fails, retries_granted, ran, removed, final, on_failed_calls, returned,
                   task, call, asked, running_loop>>

\* the handler of the task's state returns r (or raises): _dispatch_state from
\* line 249 to the next suspension point
HandlerReturns(t, r) ==
    /\ pc[t] = "handler"
    /\ LET step == HandlerStep(events[t], r)
           acc == IF step.saved THEN [saves |-> <<step.task>>, retries |-> 0] ELSE NoSaves
           out == Run(step.task, step.route, acc) IN
       Settle(t, events, << >>, out, step.route = "failure")

\* asyncio.sleep(delay_seconds) is over: _dispatch_state is entered again
SleepDone(t) ==
    /\ pc[t] = "sleep"
    /\ Settle(t, events, << >>, Run(events[t], "dispatch", NoSaves), FALSE)

\* The handler called for task t puts an entry into task.extra_data (the
\* downloader keeps the id of its remote task and its progress there): the
\* task object is changed in place, nothing is saved.
HandlerWrites(t) ==
    /\ pc[t] = "handler"
    /\ "task_id" \notin events[t].extra_data
    /\ events' = [events EXCEPT ![t].extra_data = @ \cup {"task_id"}]
    /\ UNCHANGED <<state_file, pc, sem_value, sem_waiters, on_complete_cbs, on_error_cbs,
                   cb, fails, retries_granted, ran, removed, final, on_failed_calls,
                   wrote_terminal, returned, asked, running_loop, task, call>>

\* _run_finalize_callbacks, lines 210-215: an exception of a callback is
\* logged and the loop goes on
after_callback_aborts(raised) == IF raised THEN "break" ELSE "next"

after_callback(raised) == "next"

\* The callback the loop of _run_finalize_callbacks is waiting for returns or
\* raises: the next callback is called, or, after the last one, the task is
\* removed from the table, _process_task gives its permit back and a
\* download() call that was driving the task returns.
CallbackReturns(t, raised) ==
    /\ pc[t] = "callbacks"
    /\ IF after_callback(raised) = "next" /\ cb[t].idx < Len(CallbackList(cb[t].list))
       THEN /\ cb' = [cb EXCEPT ![t].idx = @ + 1]
            /\ UNCHANGED <<events, pc, sem_value, sem_waiters, removed, returned>>
       ELSE /\ cb' = [cb EXCEPT ![t] = NoCb]
            /\ events' = remove_task_from_events(events, t)
            /\ removed' = [removed EXCEPT ![t] = TRUE]
            /\ ReleasePermit([pc EXCEPT ![t] = "done"])
            /\ returned' = IF returned[t] = "running"
                           THEN [returned EXCEPT ![t] = Ret(download_returns(events[t]))]
                           ELSE returned
    /\ UNCHANGED wrote_terminal
    /\ UNCHANGED <<state_file, on_complete_cbs, on_error_cbs, fails,
                   retries_granted, ran, final, on_failed_calls, task, call, asked, running_loop>>

\* _dispatch_state, lines 276-279: the file after the except clause for
\* asyncio.CancelledError, which calls _save_state before it raises again
on_cancelled_unsaved(file, ev) == file

on_cancelled(file, ev) == save_state(ev)

\* The coroutine of task t is cancelled at its suspension point.  Inside a
\* handler or a sleep the CancelledError passes the except clause of
\* _dispatch_state, which saves the table and raises it again; the permit is
\* given back.  In the callback loop the frames it passes rewrite, if at all,
\* the file as it is.
Cancel(t) ==
    /\ pc[t] \in {"scheduled", "wait_sem", "granted", "handler", "sleep", "callbacks"}
    /\ IF pc[t] \in {"handler", "sleep"}
       THEN /\ wrote_terminal' = (wrote_terminal \/ HoldsTerminal(on_cancelled(state_file, events)))
            /\ state_file' = on_cancelled(state_file, events)
       ELSE UNCHANGED <<wrote_terminal, state_file>>
    /\ IF pc[t] \in {"granted", "handler", "sleep", "callbacks"}
       THEN ReleasePermit([pc EXCEPT ![t] = "cancelled"])
       ELSE /\ pc' = [pc EXCEPT ![t] = "cancelled"]
            /\ sem_waiters' = RemoveWaiter(sem_waiters, t)
            /\ UNCHANGED sem_value
    /\ returned' = IF returned[t] = "running" THEN [returned EXCEPT ![t] = "cancelled"] ELSE returned
    /\ UNCHANGED <<events, on_complete_cbs, on_error_cbs, cb, fails,
                   retries_granted, ran, removed, final, on_failed_calls, task, call, asked, running_loop>>

\* _schedule_recovered_tasks_if_possible: the tasks of the loaded table for
\* which a background coroutine is created; none without a running event loop
schedule_recovered_without_loop(ev, loop) == {i \in Present(ev) : ev[i].state \notin TerminalStates}

schedule_recovered(ev, loop) ==
    IF Present(ev) = {} \/ ~loop THEN {}
    ELSE {i \in Present(ev) : ev[i].state \notin TerminalStates}

\* The process stops at any point and is started again: a new manager is
\* constructed over the state file, inside a running event loop or not.  The
\* download() calls of the old process are gone with it.
Restart(loop) ==
    /\ events' = load_state(state_file)
    /\ pc' = [i \in Ids |-> IF i \in schedule_recovered(load_state(state_file), loop) THEN "scheduled"
                            ELSE IF load_state(state_file)[i] # NoTask THEN "loaded"
                            ELSE IF pc[i] = "none" THEN "none" ELSE "gone"]
    /\ sem_value' = MaxConcurrent
    /\ sem_waiters' = << >>
    /\ on_complete_cbs' = << >>
    /\ on_error_cbs' = << >>
    /\ cb' = [i \in Ids |-> NoCb]
    /\ returned' = [i \in Ids |-> "none"]
    /\ UNCHANGED wrote_terminal
    /\ running_loop' = loop
    /\ UNCHANGED <<state_file, fails, retries_granted, ran, removed, final, on_failed_calls, task, call, asked>>

\* on_complete(callback) / on_error(callback)
OnComplete ==
    /\ Len(on_complete_cbs) < MaxCallbacks
    /\ on_complete_cbs' = Append(on_complete_cbs, Len(on_complete_cbs) + 1)
    /\ UNCHANGED wrote_terminal
    /\ UNCHANGED <<events, state_file, pc, sem_value, sem_waiters, on_error_cbs, cb,
                   fails, retries_granted, ran, removed, final, on_failed_calls, returned, task, call, asked, running_loop>>

OnError ==
    /\ Len(on_error_cbs) < MaxCallbacks
    /\ on_error_cbs' = Append(on_error_cbs, Len(on_error_cbs) + 1)
    /\ UNCHANGED wrote_terminal
    /\ UNCHANGED <<events, state_file, pc, sem_value, sem_waiters, on_complete_cbs, cb,
                   fails, retries_granted, ran, removed, final, on_failed_calls, returned, task, call, asked, running_loop>>

Next ==
    \/ \E t \in Ids, mr \in 0..MaxRetries : Download(t, mr, Resource1) /\ UNCHANGED hist
    \/ \E t \in Ids : ProcessTask(t) /\ UNCHANGED hist
    \/ \E t \in Ids : Resume(t) /\ UNCHANGED hist
    \/ \E t \in Ids, r \in HandlerResults : HandlerReturns(t, r) /\ UNCHANGED hist
    \/ \E t \in Ids : SleepDone(t) /\ UNCHANGED hist
    \/ \E t \in Ids, raised \in BOOLEAN : CallbackReturns(t, raised) /\ UNCHANGED hist
    \/ \E t \in Ids : Cancel(t) /\ UNCHANGED hist
    \/ Restart(TRUE) /\ UNCHANGED hist
    \/ OnComplete /\ UNCHANGED hist
    \/ OnError /\ UNCHANGED hist

Spec == Init /\ [][Next]_vars

\* The manager with a single download() call: the life of one task.
OneId == CHOOSE i \in Ids : \A j \in Ids : i <= j

NextOne ==
    \/ \E mr \in 0..MaxRetries : Download(OneId, mr, Resource1) /\ UNCHANGED hist
    \/ ProcessTask(OneId) /\ UNCHANGED hist
    \/ \E r \in HandlerResults : HandlerReturns(OneId, r) /\ UNCHANGED hist
    \/ SleepDone(OneId) /\ UNCHANGED hist
    \/ \E raised \in BOOLEAN : CallbackReturns(OneId, raised) /\ UNCHANGED hist
    \/ Cancel(OneId) /\ UNCHANGED hist
    \/ \E loop \in BOOLEAN : Restart(loop) /\ UNCHANGED hist
    \/ OnComplete /\ UNCHANGED hist
    \/ OnError /\ UNCHANGED hist

SpecOne == Init /\ [][NextOne]_vars

\* is_downloading(resource_info) is called
IsDownloading(resource_info) ==
    /\ asked' = [resource_info |-> resource_info, answer |-> is_downloading(events, resource_info)]
    /\ UNCHANGED <<events, state_file, pc, sem_value, sem_waiters, on_complete_cbs, on_error_cbs,
                   cb, fails, retries_granted, ran, removed, final, on_failed_calls,
                   wrote_terminal, returned, running_loop, task, call>>

\* The manager with callers that submit the resources and ask is_downloading
\* while the tasks run; no callback is registered.
NextQuery ==
    \/ \E t \in Ids, resource_info \in Resources : Download(t, 0, resource_info) /\ UNCHANGED hist
    \/ \E t \in Ids : ProcessTask(t) /\ UNCHANGED hist
    \/ \E t \in Ids : Resume(t) /\ UNCHANGED hist
    \/ \E t \in Ids : pc[t] = "handler" /\ HandlerReturns(t, DoneResult(events[t])) /\ UNCHANGED hist
    \/ \E t \in Ids : pc[t] = "handler" /\ HandlerReturns(t, FailResult("err")) /\ UNCHANGED hist
    \/ \E loop \in BOOLEAN : Restart(loop) /\ UNCHANGED hist
    \/ \E resource_info \in Resources : IsDownloading(resource_info) /\ UNCHANGED hist

SpecQuery == Init /\ [][NextQuery]_vars

\* The manager with a single download() call whose callbacks were registered
\* beforehand, and the record of what was called for it: each handler call
\* with the kind of its result, each callback with the way it ended.
MaxHandled == 5

TraceResults(tk) ==
    {DoneResult(tk), PollResult(tk), [PollResult(tk) EXCEPT !.next_state = None],
     [PollResult(tk) EXCEPT !.delay_seconds = 0], FailResult("err"),
     [kind |-> "raise", success |-> FALSE, next_state |-> None, delay_seconds |-> 0,
      error_message |-> "boom"]}

ResultKind(tk, r) ==
    CASE r.kind = "raise" -> "raise"
      [] ~r.success -> "fail"
      [] IsPoll(tk, r) -> "poll"
      [] r.next_state \notin STATE_TRANSITIONS[tk.state] -> "off-table"
      [] OTHER -> "done"

Handled(t, r) ==
    /\ handled' = [handled EXCEPT ![t] =
           Append(@, [state |-> events[t].state, result |-> ResultKind(events[t], r)])]
    /\ UNCHANGED <<called, side_vars, contexts>>

Called(t, raised) ==
    /\ called' = [called EXCEPT ![t] =
           Append(@, [list |-> cb[t].list, id |-> CallbackList(cb[t].list)[cb[t].idx],
                      raised |-> raised])]
    /\ UNCHANGED <<handled, side_vars, contexts>>

NextTrace ==
    \/ pc[OneId] = "none" /\ OnComplete /\ UNCHANGED hist
    \/ pc[OneId] = "none" /\ OnError /\ UNCHANGED hist
    \/ \E mr \in 0..MaxRetries : Download(OneId, mr, Resource1) /\ UNCHANGED hist
    \/ /\ pc[OneId] = "handler"
       /\ Len(handled[OneId]) < MaxHandled
       /\ \E r \in TraceResults(events[OneId]) : HandlerReturns(OneId, r) /\ Handled(OneId, r)
    \/ SleepDone(OneId) /\ UNCHANGED hist
    \/ \E raised \in BOOLEAN : CallbackReturns(OneId, raised) /\ Called(OneId, raised)

SpecTrace == Init /\ [][NextTrace]_vars

\* The same, with handlers whose results may name a state the table does not
\* allow after the task's own.
OffTableResults(tk) ==
    {[DoneResult(tk) EXCEPT !.next_state = s] :
        s \in DownloadState \ (STATE_TRANSITIONS[tk.state] \cup {tk.state})}

NextOffTable ==
    \/ pc[OneId] = "none" /\ OnComplete /\ UNCHANGED hist
    \/ pc[OneId] = "none" /\ OnError /\ UNCHANGED hist
    \/ \E mr \in 0..MaxRetries : Download(OneId, mr, Resource1) /\ UNCHANGED hist
    \/ /\ pc[OneId] = "handler"
       /\ Len(handled[OneId]) < MaxHandled
       /\ \E r \in {DoneResult(events[OneId]), PollResult(events[OneId])}
                     \cup OffTableResults(events[OneId]) :
              HandlerReturns(OneId, r) /\ Handled(OneId, r)
    \/ SleepDone(OneId) /\ UNCHANGED hist
    \/ \E raised \in BOOLEAN : CallbackReturns(OneId, raised) /\ Called(OneId, raised)

SpecOffTable == Init /\ [][NextOffTable]_vars

\* The manager whose process is stopped and started again while tasks are
\* under way: handlers that keep entries in extra_data, cancellation of the
\* running coroutines, construction of a new manager inside or outside a loop.
NextRecover ==
    \/ \E t \in Ids : Download(t, MaxRetries, Resource1) /\ UNCHANGED hist
    \/ \E t \in Ids : ProcessTask(t) /\ UNCHANGED hist
    \/ \E t \in Ids : Resume(t) /\ UNCHANGED hist
    \/ \E t \in Ids : HandlerWrites(t) /\ UNCHANGED hist
    \/ \E t \in Ids : /\ pc[t] = "handler"
                       /\ \E r \in {DoneResult(events[t]), PollResult(events[t]), FailResult("err")} :
                              HandlerReturns(t, r) /\ UNCHANGED hist
    \/ \E t \in Ids : SleepDone(t) /\ UNCHANGED hist
    \/ \E t \in Ids : Cancel(t) /\ UNCHANGED hist
    \/ \E loop \in BOOLEAN : Restart(loop) /\ UNCHANGED hist

SpecRecover == Init /\ [][NextRecover]_vars

\* The same manager with its coroutines counted: a coroutine that dispatches
\* a task is created by asyncio.create_task in
\* _schedule_recovered_tasks_if_possible and is the caller's own in download();
\* it ends where _process_task returns or raises, and all end with the process.
Live == {"scheduled", "wait_sem", "granted", "handler", "sleep", "callbacks"}

Ended(i) == IF pc[i] \in Live /\ pc'[i] \notin Live THEN 1 ELSE 0

Contexts(created, restarted) ==
    /\ contexts' = [i \in Ids |-> (IF restarted THEN 0 ELSE contexts[i] - Ended(i))
                                   + (IF i \in created THEN 1 ELSE 0)]
    /\ UNCHANGED <<handled, called, side_vars>>

NextContexts ==
    \/ \E t \in Ids : Download(t, MaxRetries, Resource1) /\ Contexts({t}, FALSE)
    \/ \E t \in Ids : ProcessTask(t) /\ Contexts({}, FALSE)
    \/ \E t \in Ids : Resume(t) /\ Contexts({}, FALSE)
    \/ \E t \in Ids : /\ pc[t] = "handler"
                       /\ \E r \in {DoneResult(events[t]), PollResult(events[t]), FailResult("err")} :
                              HandlerReturns(t, r) /\ Contexts({}, FALSE)
    \/ \E t \in Ids : SleepDone(t) /\ Contexts({}, FALSE)
    \/ \E t \in Ids : Cancel(t) /\ Contexts({}, FALSE)
    \/ \E loop \in BOOLEAN :
           Restart(loop) /\ Contexts(schedule_recovered(load_state(state_file), loop), TRUE)

SpecContexts == Init /\ [][NextContexts]_vars

\* A manager is constructed over a state file found on the disk: a file of
\* this or of another version of the program, a damaged one, or none.  The
\* labels are those of DownloadState, those of the states under their other
\* names, and one that was never a state.
RenamedLabels == {"transferring", "cleaning_up"}

Labels == {StateValue[s] : s \in DownloadState} \cup RenamedLabels \cup {"bogus"}

FoundRecord(i, l) == [to_dict(from_resource_info(Resource1, MaxRetries)) EXCEPT !.id = i, !.state = l]


FoundFiles ==
    {[exists |-> FALSE, parses |-> FALSE, data |-> << >>],
     [exists |-> TRUE, parses |-> FALSE, data |-> << >>]}
    \cup {[exists |-> TRUE, parses |-> TRUE, data |-> d] :
             d \in UNION {{[i \in S |-> FoundRecord(i, ls[i])] : ls \in [S -> Labels]} :
                            S \in SUBSET Ids}}

Construct(raw, loop) ==
    /\ events' = load_file(raw)
    /\ state_file' = raw.data
    /\ pc' = [i \in Ids |-> IF i \in schedule_recovered(load_file(raw), loop) THEN "scheduled"
                            ELSE IF load_file(raw)[i] # NoTask THEN "loaded" ELSE "none"]
    /\ running_loop' = loop
    /\ call' = [op |-> "construct", arg |-> raw, before |-> NewTask(0), raised |-> FALSE]
    /\ UNCHANGED <<sem_value, sem_waiters, on_complete_cbs, on_error_cbs, cb, fails,
                   retries_granted, ran, removed, final, on_failed_calls, wrote_terminal,
                   returned, asked, handled, called, task, side_vars, contexts>>

InitLoad ==
    /\ MgrInit
    /\ task = NewTask(0)
    /\ call = NoCall

NextLoad == \E raw \in FoundFiles, loop \in BOOLEAN : Construct(raw, loop)

SpecLoad == InitLoad /\ [][NextLoad]_vars

\* ------------------------------------------- a task driven method by method
Messages == {"err", "final err"}

TaskUpdateState(new_state) ==
    /\ task' = update_state(task, new_state).task
    /\ call' = [op |-> "update_state", arg |-> new_state, before |-> task,
                raised |-> update_state(task, new_state).raised]
    /\ UNCHANGED mgr_vars

TaskMarkFailed(msg) ==
    /\ task' = mark_failed(task, msg).task
    /\ call' = [op |-> "mark_failed", arg |-> msg, before |-> task,
                raised |-> mark_failed(task, msg).raised]
    /\ UNCHANGED mgr_vars

TaskRetry ==
    /\ task' = retry(task).task
    /\ call' = [op |-> "retry", arg |-> None, before |-> task, raised |-> retry(task).raised]
    /\ UNCHANGED mgr_vars

InitTask ==
    /\ MgrInit
    /\ task \in {NewTask(mr) : mr \in 0..MaxRetries}
    /\ call = NoCall

NextTask ==
    \/ \E new_state \in DownloadState : TaskUpdateState(new_state)
    \/ \E msg \in Messages : TaskMarkFailed(msg)
    \/ TaskRetry

SpecTask == InitTask /\ [][NextTask]_vars

\* to_dict and from_dict applied to a task by itself: the task is written as
\* a record and a task is made of the record again.
CodecResources ==
    [download_url : {"u1"}, title : {"a"}, quality : {"k1080p", "kUnknown", None},
     languages : {<< >>, <<"kChs", "kJp">>}]

CodecTasks ==
    [id : {1}, state : DownloadState, error_message : {None, "err"}, retry_count : 0..MaxRetries,
     max_retries : {MaxRetries}, resource_info : CodecResources,
     extra_data : {{}, {"task_id"}}]

TaskToDict ==
    /\ call.op = "none"
    /\ call' = [op |-> "to_dict", arg |-> to_dict(task), before |-> task, raised |-> FALSE]
    /\ UNCHANGED task
    /\ UNCHANGED mgr_vars

TaskFromDict ==
    /\ call.op = "to_dict"
    /\ task' = from_dict(call.arg).task
    /\ call' = [op |-> "from_dict", arg |-> call.arg, before |-> call.before,
                raised |-> ~from_dict(call.arg).ok]
    /\ UNCHANGED mgr_vars

InitCodec ==
    /\ MgrInit
    /\ task \in CodecTasks
    /\ call = NoCall

NextCodec == TaskToDict \/ TaskFromDict

SpecCodec == InitCodec /\ [][NextCodec]_vars

\* The client: _request calls that pass its gate, are tried, sleep and are
\* tried again, while the manager works on its tasks.
ClientLockedNever == FALSE

ClientLocked == client_sem = 0 \/ client_waiters # << >>

\* OpenListClient(max_retries = ...) is constructed anew, no call being under way
ClientNew(max_retries) ==
    /\ \A c \in Calls : req[c].pc \in {"idle", "done"}
    /\ \E c \in Calls : req[c].pc = "done"
    /\ client_configured' = max_retries
    /\ client_max_retries' = client_retries(max_retries)
    /\ client_sem' = MaxConcurrentRequests
    /\ client_waiters' = << >>
    /\ req' = [c \in Calls |-> NoReq]

\* _request is called: `async with self._semaphore`
Request(c) ==
    /\ req[c].pc = "idle"
    /\ IF ClientLocked
       THEN /\ req' = [req EXCEPT ![c].pc = "wait"]
            /\ client_waiters' = Append(client_waiters, c)
            /\ UNCHANGED client_sem
       ELSE /\ req' = [req EXCEPT ![c].pc = "attempt", ![c].attempt = 1]
            /\ client_sem' = client_sem - 1
            /\ UNCHANGED client_waiters
    /\ UNCHANGED <<client_configured, client_max_retries>>

\* a call that was handed a permit goes on to its first attempt
RequestResumes(c) ==
    /\ req[c].pc = "granted"
    /\ req' = [req EXCEPT ![c].pc = "attempt", ![c].attempt = 1]
    /\ UNCHANGED <<client_configured, client_max_retries, client_sem, client_waiters>>

\* the end of `async with self._semaphore`: the call c returns `result`, its
\* last attempt having ended with `error` ("" for none)
Returns(c, error, result) ==
    LET ended == [req EXCEPT ![c].pc = "done", ![c].result = result,
                             ![c].errors = IF error = "" THEN @ ELSE Append(@, error)] IN
    IF client_waiters # << >>
    THEN /\ req' = [ended EXCEPT ![Head(client_waiters)].pc = "granted"]
         /\ client_waiters' = Tail(client_waiters)
         /\ UNCHANGED client_sem
    ELSE /\ req' = ended
         /\ client_sem' = client_sem + 1
         /\ UNCHANGED client_waiters

\* line 58: the response arrived and was decoded
AttemptSucceeds(c) ==
    /\ req[c].pc = "attempt"
    /\ Returns(c, "", "json")
    /\ UNCHANGED <<client_configured, client_max_retries>>

\* lines 59-69: aiohttp.ClientError or asyncio.TimeoutError
AttemptNetworkError(c) ==
    /\ req[c].pc = "attempt"
    /\ IF req[c].attempt < client_max_retries
       THEN /\ req' = [req EXCEPT ![c].pc = "backoff",
                                  ![c].errors = Append(@, "network"),
                                  ![c].slept = Append(@, backoff(req[c].attempt))]
            /\ UNCHANGED <<client_sem, client_waiters>>
       ELSE Returns(c, "network", None)
    /\ UNCHANGED <<client_configured, client_max_retries>>

\* lines 70-73: any other exception
AttemptOtherError(c) ==
    /\ req[c].pc = "attempt"
    /\ Returns(c, "other", None)
    /\ UNCHANGED <<client_configured, client_max_retries>>

\* asyncio.sleep(backoff) is over: the next attempt
BackoffDone(c) ==
    /\ req[c].pc = "backoff"
    /\ req' = [req EXCEPT ![c].pc = "attempt", ![c].attempt = @ + 1]
    /\ UNCHANGED <<client_configured, client_max_retries, client_sem, client_waiters>>

client_rest == <<events, state_file, pc, sem_value, sem_waiters, on_complete_cbs, on_error_cbs, cb,
                 fails, retries_granted, ran, removed, final, on_failed_calls, wrote_terminal,
                 returned, asked, handled, called, running_loop, task, call, remote, contexts>>

NextClient ==
    \/ \E max_retries \in 0..ClientMaxRetries : ClientNew(max_retries) /\ UNCHANGED client_rest
    \/ \E c \in Calls : Request(c) /\ UNCHANGED client_rest
    \/ \E c \in Calls : RequestResumes(c) /\ UNCHANGED client_rest
    \/ \E c \in Calls : AttemptSucceeds(c) /\ UNCHANGED client_rest
    \/ \E c \in Calls : AttemptNetworkError(c) /\ UNCHANGED client_rest
    \/ \E c \in Calls : AttemptOtherError(c) /\ UNCHANGED client_rest
    \/ \E c \in Calls : BackoffDone(c) /\ UNCHANGED client_rest
    \/ \E t \in Ids : Download(t, 0, Resource1) /\ UNCHANGED hist
    \/ \E t \in Ids : pc[t] = "handler" /\ HandlerReturns(t, DoneResult(events[t])) /\ UNCHANGED hist
    \/ \E t \in Ids : Resume(t) /\ UNCHANGED hist

SpecClient == Init /\ [][NextClient]_vars

\* ------------------- downloader/openlist_downloader.py: on_downloading
\* base.py: HandlerResult.done(), .poll(delay), .fail(message)
HandlerDone == [status |-> "done", poll_delay |-> 0, error_message |-> None]

HandlerPoll(delay) == [status |-> "poll", poll_delay |-> delay, error_message |-> None]

HandlerFail(message) == [status |-> "failed", poll_delay |-> 0, error_message |-> message]

\* what a step of the handler comes to: a result to return, or True / False
Gives(returns, result, tk, slept) == [returns |-> returns, result |-> result, task |-> tk, slept |-> slept]

\* the files a listing of the temporary directory may show (those of its
\* subdirectories under their relative names), and _is_video_file
RemoteFiles == {[name |-> "a.mkv", size |-> 1], [name |-> "sub/b.mp4", size |-> 2],
                [name |-> "n.txt", size |-> 3]}

is_video_file(name) == name \in {"a.mkv", "sub/b.mp4"}

\* one check of the transfer lists, as the remote answers it
TransferChecks == {"error", "running", "progressing", "failed", "succeeded", "absent"}

\* the checks _wait_transfer_task_if_exists makes in one call
TransferRuns ==
    {run \in UNION {[1..n -> TransferChecks] : n \in 1..TRANSFER_CHECK_MAX_RETRIES} :
        /\ \A i \in 1..(Len(run) - 1) : run[i] = "absent"
        /\ Len(run) < TRANSFER_CHECK_MAX_RETRIES => run[Len(run)] # "absent"}

\* The answers of the remote service to the requests of one call of the
\* handler: the undone list (None: the request failed; the job absent,
\* listed without or with progress), the done list (the job absent or listed
\* with its state), the transfer checks, the listing of the temporary
\* directory.  What the handler does not come to ask is "unasked".
Replies ==
    {r \in [undone : {None, "absent", "running", "progressing"},
            done : {"unasked", None, "absent", "Succeeded", "Errored"},
            transfer : TransferRuns \cup {<< >>},
            files : SUBSET RemoteFiles] :
        /\ r.done = "unasked" <=> r.undone # "absent"
        /\ r.transfer = << >> <=> r.done # "Succeeded"
        /\ (\/ r.transfer = << >>
            \/ r.transfer[Len(r.transfer)] \notin {"succeeded", "absent"}) => r.files = {}}

\* _log_progress: the bucket of the progress is kept in extra_data
log_progress(tk, progress, key) ==
    IF progress THEN [tk EXCEPT !.extra_data = @ \cup {key}] ELSE tk

\* _check_download_completed, lines 160-188
check_download_completed(tk, r) ==
    IF r.undone = None THEN Gives("result", HandlerFail("Failed to fetch undone tasks"), tk, 0)
    ELSE IF r.undone # "absent"
    THEN Gives("result", HandlerPoll(5),
               log_progress(tk, r.undone = "progressing", "_download_progress_bucket"), 0)
    ELSE IF r.done = None THEN Gives("result", HandlerFail("Failed to fetch done tasks"), tk, 0)
    ELSE IF r.done = "absent" THEN Gives("result", HandlerFail("Task not found"), tk, 0)
    ELSE IF r.done # "Succeeded" THEN Gives("result", HandlerFail("Task failed with state"), tk, 0)
    ELSE Gives("true", HandlerDone, tk, 0)

\* _wait_transfer_task_if_exists, lines 193-212, from its attempt-th check on
\* (_check_transfer_once, _find_undone_transfer, _find_done_transfer)
RECURSIVE wait_transfer_task_if_exists(_, _, _, _)
wait_transfer_task_if_exists(tk, run, attempt, slept) ==
    IF attempt > TRANSFER_CHECK_MAX_RETRIES THEN Gives("false", HandlerDone, tk, slept)
    ELSE LET check == run[attempt] IN
         IF check = "error"
         THEN Gives("result", HandlerFail("Failed to fetch transfer tasks"), tk, slept)
         ELSE IF check \in {"running", "progressing"}
         THEN Gives("result", HandlerPoll(5),
                    log_progress(tk, check = "progressing", "_transfer_progress_bucket"), slept)
         ELSE IF check = "failed"
         THEN Gives("result", HandlerFail("Transfer task failed with state"), tk, slept)
         ELSE IF check = "succeeded" THEN Gives("true", HandlerDone, tk, slept)
         ELSE wait_transfer_task_if_exists(tk, run, attempt + 1,
                  IF attempt < TRANSFER_CHECK_MAX_RETRIES THEN slept + 1 ELSE slept)

\* _detect_downloaded_file, lines 287-300: the largest video file that was
\* not in the directory before
detect_any_file(tk, files) ==
    IF tk.temp_path = None \/ files = {} THEN None
    ELSE (CHOOSE f \in files : \A g \in files : g.size <= f.size).name

detect_downloaded_file(tk, files) ==
    IF tk.temp_path = None THEN None
    ELSE LET candidates == {f \in files : is_video_file(f.name) /\ f.name \notin tk.initial_files} IN
         IF candidates = {} THEN None
         ELSE (CHOOSE f \in candidates : \A g \in candidates : g.size <= f.size).name

\* on_downloading, lines 140-158: the result and the task as it is left
on_downloading(tk, r) ==
    IF "task_id" \notin tk.extra_data
    THEN Gives("result", HandlerFail("No task ID available"), tk, 0)
    ELSE LET download_completed == check_download_completed(tk, r) IN
         IF download_completed.returns = "result" THEN download_completed
         ELSE LET transfer_result ==
                      wait_transfer_task_if_exists(download_completed.task, r.transfer, 1, 0) IN
              IF transfer_result.returns = "result" THEN transfer_result
              ELSE LET downloaded_filename == detect_downloaded_file(transfer_result.task, r.files) IN
                   IF downloaded_filename = None
                   THEN Gives("result", HandlerPoll(10), transfer_result.task, transfer_result.slept)
                   ELSE Gives("result", HandlerDone,
                              [transfer_result.task EXCEPT !.downloaded_filename = downloaded_filename],
                              transfer_result.slept)

\* The handler of DOWNLOADING called for a task as long as it polls, the
\* remote service answering each call as it may; after another result the
\* next task is taken up.
DownloadingTasks ==
    {[NewTask(0) EXCEPT !.id = 1, !.state = DOWNLOADING, !.extra_data = keys]
        @@ [temp_path |-> temp_path, initial_files |-> initial_files, downloaded_filename |-> None] :
        keys \in {{}, {"task_id"}}, temp_path \in {None, "tmp"}, initial_files \in {{}, {"a.mkv"}}}

OnDownloading(r) ==
    /\ call.op = "none" \/ (call.op = "on_downloading" /\ call.result.status = "poll")
    /\ task' = on_downloading(task, r).task
    /\ call' = [op |-> "on_downloading", arg |-> r, before |-> task, raised |-> FALSE,
                result |-> on_downloading(task, r).result, slept |-> on_downloading(task, r).slept]
    /\ UNCHANGED mgr_vars

NextDownload ==
    /\ call.op = "on_downloading" /\ call.result.status # "poll"
    /\ task' \in DownloadingTasks
    /\ call' = NoCall
    /\ UNCHANGED mgr_vars

InitDownloading ==
    /\ MgrInit
    /\ task \in DownloadingTasks
    /\ call = NoCall

NextDownloading == (\E r \in Replies : OnDownloading(r)) \/ NextDownload

SpecDownloading == InitDownloading /\ [][NextDownloading]_vars

\* the dispatcher calls the handler again after each poll
SpecDownloadingFair == SpecDownloading /\ WF_vars(NextDownloading)

\* ----------- downloader/openlist_downloader.py: the handlers and the remote
\* File names are relative to the temporary directory of the task ("tmp");
\* "sub/..." is a file of its subdirectory "sub".  "X" is the name that
\* _build_final_filename makes of the resource.
InSub(name) == name \in {"sub/b.mp4", "sub/X.mp4", "sub/X.mkv"}

\* os.path.splitext(name)[1]
splitext(name) == IF name \in {"a.mkv", "X.mkv", "sub/X.mkv"} THEN ".mkv" ELSE ".mp4"

\* the entry of the listing of the temporary directory under which a file shows
TopOf(name) == IF InSub(name) THEN "sub" ELSE name

\* the name of a file after fs/rename gave it new_name in its own directory
Renamed(name, new_name) ==
    IF ~InSub(name) THEN new_name
    ELSE IF new_name = "X.mkv" THEN "sub/X.mkv" ELSE "sub/X.mp4"

\* _build_final_filename, lines 370-409: the name of the resource with the
\* extension of the downloaded file
build_final_filename(tk) == IF splitext(tk.downloaded_filename) = ".mkv" THEN "X.mkv" ELSE "X.mp4"

\* The remote service carries out a request when it can and will: each
\* yields whether it answered with code 200 and the files as they are then.
remote_rename(rm, name, new_name, willing) ==
    LET ok == /\ willing
              /\ \E f \in rm.tmp : f.name = name
              /\ \A f \in rm.tmp : f.name # Renamed(name, new_name) IN
    [ok |-> ok,
     remote |-> IF ok THEN [rm EXCEPT !.tmp = {IF f.name = name
                                                THEN [f EXCEPT !.name = Renamed(name, new_name)]
                                                ELSE f : f \in rm.tmp}]
                ELSE rm]

remote_move(rm, name, willing) ==
    LET ok == willing /\ \E f \in rm.tmp : f.name = name IN
    [ok |-> ok,
     remote |-> IF ok THEN [rm EXCEPT !.tmp = {f \in @ : f.name # name},
                                      !.final = @ \cup {f \in rm.tmp : f.name = name}]
                ELSE rm]

remote_remove(rm, willing) ==
    [ok |-> willing, remote |-> IF willing THEN [rm EXCEPT !.tmp = {}] ELSE rm]

\* a request made of the client
Asked(op, path, name) == [op |-> op, path |-> path, name |-> name]

\* what a handler comes to: its result, the task and the remote as they are
\* left, the requests it made
Handles(result, tk, rm, requests) ==
    [result |-> result, task |-> tk, remote |-> rm, requests |-> requests]

\* on_pending, lines 106-138; the job that is created will write the file
\* ans.yields, the same at every attempt, since the resource is the same
on_pending(tk, rm, ans) ==
    IF ~ans.mkdir
    THEN Handles(HandlerFail("Failed to create temporary directory"), tk, rm,
                 <<Asked("mkdir", "tmp", "")>>)
    ELSE LET listed == IF ans.list THEN {TopOf(f.name) : f \in rm.tmp} ELSE {}
             t1 == [tk EXCEPT !.initial_files = listed, !.temp_path = "tmp"]
             requests == <<Asked("mkdir", "tmp", ""), Asked("list_files", "tmp", ""),
                           Asked("add_offline_download", "tmp", "")>> IN
         IF ~ans.add
         THEN Handles(HandlerFail("Failed to create offline download task"), t1, rm, requests)
         ELSE Handles(HandlerDone, [t1 EXCEPT !.extra_data = @ \cup {"task_id"}],
                      [rm EXCEPT !.job = "undone",
                                 !.yields = IF rm.job = "none" THEN ans.yields ELSE @], requests)

\* _rename_temp_file_if_needed, lines 411-430: the name to move, the remote
\* as it is left, the requests made
rename_temp_file_always(tk, rm, final_filename, willing) ==
    [name |-> final_filename,
     remote |-> remote_rename(rm, tk.downloaded_filename, final_filename, willing).remote,
     requests |-> <<Asked("rename", tk.downloaded_filename, final_filename)>>]

rename_temp_file_if_needed(tk, rm, final_filename, willing) ==
    IF final_filename = tk.downloaded_filename
    THEN [name |-> tk.downloaded_filename, remote |-> rm, requests |-> << >>]
    ELSE LET renamed == remote_rename(rm, tk.downloaded_filename, final_filename, willing) IN
         [name |-> IF renamed.ok THEN final_filename ELSE tk.downloaded_filename,
          remote |-> renamed.remote,
          requests |-> <<Asked("rename", tk.downloaded_filename, final_filename)>>]

\* on_transferring, lines 333-361
on_transferring(tk, rm, ans) ==
    IF tk.downloaded_filename = None
    THEN Handles(HandlerFail("No downloaded filename available"), tk, rm, << >>)
    ELSE IF tk.temp_path = None
    THEN Handles(HandlerFail("No temp_path available"), tk, rm, << >>)
    ELSE IF ~ans.mkdir
    THEN Handles(HandlerFail("Failed to create directory"), tk, rm, <<Asked("mkdir", "final", "")>>)
    ELSE LET renamed == rename_temp_file_if_needed(tk, rm, build_final_filename(tk), ans.rename)
             moved == remote_move(renamed.remote, renamed.name, ans.move)
             requests == <<Asked("mkdir", "final", "")>> \o renamed.requests
                             \o <<Asked("move", "tmp", renamed.name)>> IN
         IF ~moved.ok
         THEN Handles(HandlerFail("Failed to move file"), tk, moved.remote, requests)
         ELSE Handles(HandlerDone, [tk EXCEPT !.final_path = [dir |-> "final", name |-> renamed.name]],
                      moved.remote, requests)

\* _cleanup, lines 439-447, and on_cleaning_up, lines 432-434
cleanup(tk, rm, willing) ==
    IF tk.temp_path = None THEN [ok |-> TRUE, remote |-> rm, requests |-> << >>]
    ELSE [ok |-> remote_remove(rm, willing).ok, remote |-> remote_remove(rm, willing).remote,
          requests |-> <<Asked("remove", "save_path", "tmp")>>]

on_cleaning_up_strict(tk, rm, willing) ==
    Handles(IF cleanup(tk, rm, willing).ok THEN HandlerDone ELSE HandlerFail("Failed to clean up"),
            tk, cleanup(tk, rm, willing).remote, cleanup(tk, rm, willing).requests)

on_cleaning_up(tk, rm, willing) ==
    Handles(HandlerDone, tk, cleanup(tk, rm, willing).remote, cleanup(tk, rm, willing).requests)

\* The four handlers called for one task in the order in which the dispatcher
\* calls them, retries included, against a remote service that carries the
\* job out in its own time and may refuse any request.
HandlerTask(mr) ==
    [NewTask(mr) EXCEPT !.id = 1, !.resource_info = Resource1]
        @@ [temp_path |-> None, initial_files |-> {}, downloaded_filename |-> None,
            final_path |-> None]

\* the result of a handler as _dispatch_state reads it
AsTransition(tk, result) ==
    IF result.status = "done" THEN DoneResult(tk)
    ELSE IF result.status = "poll" THEN [PollResult(tk) EXCEPT !.delay_seconds = result.poll_delay]
    ELSE FailResult(result.error_message)

\* _dispatch_state with that result, up to the next call of a handler or to
\* the end of the task
Dispatched(tk, result) ==
    LET step == HandlerStep(tk, AsTransition(tk, result))
        acc == IF step.saved THEN [saves |-> <<step.task>>, retries |-> 0] ELSE NoSaves IN
    Run(step.task, step.route, acc)

\* the job as the done list shows it
done_list(job) ==
    IF job = "succeeded" THEN "Succeeded" ELSE IF job = "errored" THEN "Errored" ELSE "absent"

\* _check_download_completed, lines 163 and 174: the undone list is read
\* first, the done list after it
lists_seen_done_first(job_first, job_second) ==
    [undone |-> job_second = "undone", done |-> done_list(job_first)]

lists_seen(job_first, job_second) ==
    [undone |-> job_first = "undone", done |-> done_list(job_second)]

StartCall ==
    [op |-> "none", arg |-> None, before |-> HandlerTask(0), raised |-> FALSE,
     result |-> HandlerDone, requests |-> << >>, was |-> NoRemote, then |-> "handler"]

Called_(op, arg, h, requests, then) ==
    [op |-> op, arg |-> arg, before |-> task, raised |-> FALSE, result |-> h.result,
     requests |-> requests, was |-> remote, then |-> then]

Ready(state) ==
    /\ call.then \in {"handler", "sleep"}
    /\ call.op # "get_offline_download_undone"
    /\ task.state = state

handler_rest == <<events, state_file, pc, sem_value, sem_waiters, on_complete_cbs, on_error_cbs, cb,
                  fails, retries_granted, ran, removed, final, on_failed_calls, wrote_terminal,
                  returned, asked, handled, called, running_loop, client_configured,
                  client_max_retries, client_sem, client_waiters, req, contexts>>

OnPending(ans) ==
    /\ Ready(PENDING)
    /\ LET h == on_pending(task, remote, ans) IN
       /\ task' = Dispatched(h.task, h.result).task
       /\ remote' = h.remote
       /\ call' = Called_("on_pending", ans, h, h.requests, Dispatched(h.task, h.result).pc)
    /\ UNCHANGED handler_rest

\* the first request of on_downloading is answered
GetUndone ==
    /\ Ready(DOWNLOADING)
    /\ call' = [op |-> "get_offline_download_undone", arg |-> remote.job, before |-> task,
                raised |-> FALSE, result |-> HandlerDone, requests |-> << >>, was |-> remote,
                then |-> call.then]
    /\ UNCHANGED <<task, remote>>
    /\ UNCHANGED handler_rest

\* the remote service ends the job: the file is there, or the job failed
JobEnds(ok) ==
    /\ remote.job = "undone"
    /\ remote' = IF ok
                 THEN [remote EXCEPT !.job = "succeeded",
                                     !.tmp = {f \in @ : f.name # remote.yields}
                                                \cup {f \in RemoteFiles : f.name = remote.yields}]
                 ELSE [remote EXCEPT !.job = "errored"]
    /\ UNCHANGED <<task, call>>
    /\ UNCHANGED handler_rest

\* the answers on_downloading gets after the first
AnswersOf(ans, run) ==
    LET seen == lists_seen(call.arg, remote.job)
        undone == IF ~ans.undone THEN None
                  ELSE IF ~seen.undone THEN "absent"
                  ELSE IF ans.progress THEN "progressing" ELSE "running"
        done == IF undone # "absent" THEN "unasked" ELSE IF ~ans.done THEN None ELSE seen.done
        transfer == IF done = "Succeeded" THEN run ELSE << >>
        listed == /\ transfer # << >>
                  /\ transfer[Len(transfer)] \in {"succeeded", "absent"}
                  /\ ans.list IN
    [undone |-> undone, done |-> done, transfer |-> transfer,
     files |-> IF listed THEN remote.tmp ELSE {}]

OnDownloadingRest(ans, run) ==
    /\ call.op = "get_offline_download_undone"
    /\ LET r == AnswersOf(ans, run)
           h == on_downloading(task, r) IN
       /\ task' = Dispatched(h.task, h.result).task
       /\ call' = Called_("on_downloading", r, h, << >>, Dispatched(h.task, h.result).pc)
    /\ UNCHANGED remote
    /\ UNCHANGED handler_rest

OnTransferring(ans) ==
    /\ Ready(DOWNLOADED)
    /\ LET h == on_transferring(task, remote, ans) IN
       /\ task' = Dispatched(h.task, h.result).task
       /\ remote' = h.remote
       /\ call' = Called_("on_transferring", ans, h, h.requests, Dispatched(h.task, h.result).pc)
    /\ UNCHANGED handler_rest

OnCleaningUp(willing) ==
    /\ Ready(POST_PROCESSING)
    /\ LET h == on_cleaning_up(task, remote, willing) IN
       /\ task' = Dispatched(h.task, h.result).task
       /\ remote' = h.remote
       /\ call' = Called_("on_cleaning_up", willing, h, h.requests, Dispatched(h.task, h.result).pc)
    /\ UNCHANGED handler_rest

InitHandlers ==
    /\ MgrInit
    /\ task \in {HandlerTask(mr) : mr \in 0..MaxRetries}
    /\ call = StartCall

NextHandlers ==
    \/ \E ans \in [mkdir : BOOLEAN, list : BOOLEAN, add : BOOLEAN,
                    yields : {"a.mkv", "sub/b.mp4"}] : OnPending(ans)
    \/ GetUndone
    \/ \E ok \in BOOLEAN : JobEnds(ok)
    \/ \E ans \in [undone : BOOLEAN, progress : BOOLEAN, done : BOOLEAN, list : BOOLEAN],
          run \in TransferRuns : OnDownloadingRest(ans, run)
    \/ \E ans \in [mkdir : BOOLEAN, rename : BOOLEAN, move : BOOLEAN] : OnTransferring(ans)
    \/ \E willing \in BOOLEAN : OnCleaningUp(willing)

SpecHandlers == InitHandlers /\ [][NextHandlers]_vars

\* on_cleaning_up called by hand, any number of times, on a task that is
\* being cleaned up, with a temporary path or without one; call.n counts the
\* calls
CleanupTasks ==
    {[HandlerTask(mr) EXCEPT !.state = POST_PROCESSING, !.temp_path = temp_path] :
        mr \in 0..MaxRetries, temp_path \in {None, "tmp"}}

CleanUpAgain(willing) ==
    /\ call.n < NCalls
    /\ LET h == on_cleaning_up(task, remote, willing) IN
       /\ task' = h.task
       /\ remote' = h.remote
       /\ call' = Called_("on_cleaning_up", willing, h, h.requests, "handler")
                      @@ [n |-> call.n + 1]
    /\ UNCHANGED handler_rest

InitCleanup ==
    /\ MgrInit
    /\ task \in CleanupTasks
    /\ call = StartCall @@ [n |-> 0]

\* what the temporary directory holds before the first call
RemoteHolds(files) ==
    /\ call.n = 0 /\ remote.tmp = {}
    /\ remote' = [remote EXCEPT !.tmp = files]
    /\ UNCHANGED <<task, call>>
    /\ UNCHANGED handler_rest

NextCleanup ==
    \/ \E files \in SUBSET RemoteFiles \ {{}} : RemoteHolds(files)
    \/ \E willing \in BOOLEAN : CleanUpAgain(willing)

SpecCleanup == InitCleanup /\ [][NextCleanup]_vars

\* One task from download() to its end, one _save_state call at a time: the
\* state file is what a crash at that instant leaves behind.  call.pending
\* lists the task as it is at each _save_state call that the run of the
\* dispatcher still has to make, call.final is the task at the end of the run.
SnapshotTask(mr) == [NewTask(mr) EXCEPT !.id = 1, !.resource_info = Resource1]

SnapshotOf(tk) == save_state([events EXCEPT ![tk.id] = tk])

\* what the handlers of a downloader return: done, poll, fail, or an exception
DownloaderResults(tk) ==
    IF tk.state \notin HandlerStates THEN {}
    ELSE {DoneResult(tk), PollResult(tk)}
            \cup {FailResult(m) : m \in FailMessages}
            \cup {r \in HandlerResults : r.kind = "raise"}

\* download, lines 309-318: the task is put into the table and the table saved
Submit ==
    /\ call.then = "new"
    /\ state_file' = SnapshotOf(task)
    /\ call' = [call EXCEPT !.op = "download", !.then = "handler"]
    /\ UNCHANGED task

\* the handler returns: _dispatch_state up to its first _save_state call
HandlerEnds(r) ==
    /\ call.then \in {"handler", "sleep"} /\ call.pending = << >>
    /\ LET step == HandlerStep(task, r)
           acc == IF step.saved THEN [saves |-> <<step.task>>, retries |-> 0] ELSE NoSaves
           out == Run(step.task, step.route, acc) IN
       /\ task' = IF out.saves = << >> THEN out.task ELSE step.task
       /\ call' = [op |-> "handler", then |-> out.pc, pending |-> out.saves, final |-> out.task]
    /\ UNCHANGED state_file

\* _save_state, lines 112-132: the next snapshot is written
WriteSnapshot ==
    /\ call.pending # << >>
    /\ state_file' = SnapshotOf(Head(call.pending))
    /\ task' = IF Tail(call.pending) = << >> THEN call.final ELSE Head(call.pending)
    /\ call' = [call EXCEPT !.op = "_save_state", !.pending = Tail(@)]

snapshot_rest == <<events, pc, sem_value, sem_waiters, on_complete_cbs, on_error_cbs, cb,
                   fails, retries_granted, ran, removed, final, on_failed_calls, wrote_terminal,
                   returned, asked, handled, called, running_loop, side_vars, contexts>>

InitSnapshots ==
    /\ MgrInit
    /\ task \in {SnapshotTask(mr) : mr \in 0..MaxRetries}
    /\ call = [op |-> "none", then |-> "new", pending |-> << >>, final |-> task]

NextSnapshots ==
    \/ Submit /\ UNCHANGED snapshot_rest
    \/ \E r \in DownloaderResults(task) : HandlerEnds(r) /\ UNCHANGED snapshot_rest
    \/ WriteSnapshot /\ UNCHANGED snapshot_rest

SpecSnapshots == InitSnapshots /\ [][NextSnapshots]_vars

\* worker.py: the dispatch worker in front of the manager.  call.queue is
\* rss_entry_queue, call.put counts the entries put into it, call.started
\* lists the entries for which _download_entry was created and which come to
\* call manager.download(), in the order in which they do.
worker_rest == <<events, state_file, pc, sem_value, sem_waiters, on_complete_cbs, on_error_cbs,
                 cb, fails, retries_granted, ran, removed, final, on_failed_calls,
                 wrote_terminal, returned, running_loop, task>>

\* rss_poll_worker, line 26: an entry is put into the queue
QueuePut(entry) ==
    /\ call.put < NTasks
    /\ call' = [call EXCEPT !.op = "put", !.queue = Append(@, entry), !.put = @ + 1]
    /\ UNCHANGED asked
    /\ UNCHANGED worker_rest

\* download_dispatch_worker, lines 43-51: the next entry is taken, skipped if
\* is_downloading says so, and _download_entry is created for it otherwise;
\* parses tells whether parse_metadata will give the metadata (lines 63-73)
WorkerGet(parses) ==
    /\ call.queue # << >>
    /\ LET entry == Head(call.queue)
           skip == is_downloading(events, entry) IN
       /\ asked' = [resource_info |-> entry, answer |-> skip]
       /\ call' = [call EXCEPT !.op = IF skip THEN "skip" ELSE "create_task",
                               !.queue = Tail(@),
                               !.started = IF skip \/ ~parses THEN @ ELSE Append(@, entry)]
    /\ UNCHANGED worker_rest

\* _download_entry, line 92: manager.download(entry, ...) is called
DownloadEntry(t) ==
    /\ t <= Len(call.started)
    /\ Download(t, 0, call.started[t])

InitWorker ==
    /\ MgrInit
    /\ task = NewTask(0)
    /\ call = [op |-> "none", queue |-> << >>, put |-> 0, started |-> << >>]

NextWorker ==
    \/ \E entry \in Resources : QueuePut(entry) /\ UNCHANGED hist
    \/ \E parses \in BOOLEAN : WorkerGet(parses) /\ UNCHANGED hist
    \/ \E t \in Ids : DownloadEntry(t) /\ UNCHANGED hist
    \/ \E t \in Ids : Resume(t) /\ UNCHANGED hist
    \/ \E t \in Ids : pc[t] = "handler" /\ HandlerReturns(t, DoneResult(events[t])) /\ UNCHANGED hist
    \/ \E t \in Ids : pc[t] = "handler" /\ HandlerReturns(t, FailResult("err")) /\ UNCHANGED hist

SpecWorker == InitWorker /\ [][NextWorker]_vars

\* _dispatch_state, line 274: after every result of a handler that is not a
\* failure, _dispatch_state awaits a new call of itself; _handle_task_failure
\* does the same after retry() (line 301).  call.depth is the number of
\* _dispatch_state calls of the task that have not returned, call.polls the
\* number of polls so far.
MaxPolls == 3

DispatchResult(r) ==
    /\ task.state \in HandlerStates
    /\ call.depth > 0
    /\ r = PollResult(task) => call.polls < MaxPolls
    /\ LET step == HandlerStep(task, r)
           acc == IF step.saved THEN [saves |-> <<step.task>>, retries |-> 0] ELSE NoSaves
           out == Run(step.task, step.route, acc) IN
       /\ task' = out.task
       /\ call' = [op |-> IF r = PollResult(task) THEN "poll"
                          ELSE IF r = DoneResult(task) THEN "done" ELSE "fail",
                   depth |-> IF out.pc \in {"handler", "sleep"} THEN call.depth + 1 ELSE 0,
                   polls |-> IF r = PollResult(task) THEN call.polls + 1 ELSE call.polls]

depth_rest == <<events, state_file, pc, sem_value, sem_waiters, on_complete_cbs, on_error_cbs, cb,
                fails, retries_granted, ran, removed, final, on_failed_calls, wrote_terminal,
                returned, asked, handled, called, running_loop, side_vars, contexts>>

InitDepth ==
    /\ MgrInit
    /\ task \in {SnapshotTask(mr) : mr \in 0..MaxRetries}
    /\ call = [op |-> "none", depth |-> 1, polls |-> 0]

NextDepth ==
    \/ DispatchResult(PollResult(task)) /\ UNCHANGED depth_rest
    \/ DispatchResult(DoneResult(task)) /\ UNCHANGED depth_rest
    \/ \E m \in FailMessages : DispatchResult(FailResult(m)) /\ UNCHANGED depth_rest

SpecDepth == InitDepth /\ [][NextDepth]_vars

\* The manager under fair scheduling, with the handlers of a downloader
\* (done, poll, fail, an exception) and callbacks that return or raise.  The
\* callbacks are registered before the first download() call; the process is
\* stopped and started again, inside a running loop, only while a download()
\* call is under way.  The event loop runs every coroutine that is ready
\* (ProcessTask, Resume, SleepDone, CallbackReturns); every handler call
\* returns, and a handler that is called again and again does not return
\* poll for ever.
Settles(t) ==
    \E r \in DownloaderResults(events[t]) \ {PollResult(events[t])} : HandlerReturns(t, r)

NoneYet == \A t \in Ids : pc[t] = "none"

NextLive ==
    \/ \E t \in Ids, mr \in 0..MaxRetries : Download(t, mr, Resource1) /\ UNCHANGED hist
    \/ \E t \in Ids : ProcessTask(t) /\ UNCHANGED hist
    \/ \E t \in Ids : Resume(t) /\ UNCHANGED hist
    \/ \E t \in Ids : pc[t] = "handler" /\ HandlerReturns(t, PollResult(events[t])) /\ UNCHANGED hist
    \/ \E t \in Ids : pc[t] = "handler" /\ Settles(t) /\ UNCHANGED hist
    \/ \E t \in Ids : SleepDone(t) /\ UNCHANGED hist
    \/ \E t \in Ids, raised \in BOOLEAN : CallbackReturns(t, raised) /\ UNCHANGED hist
    \/ (\E t \in Ids : returned[t] = "running") /\ Restart(TRUE) /\ UNCHANGED hist
    \/ NoneYet /\ OnComplete /\ UNCHANGED hist
    \/ NoneYet /\ OnError /\ UNCHANGED hist

\* strong fairness of Settles(t), which is enabled exactly when the handler
\* of task t is running: a handler called infinitely often settles
HandlerSettles(t) ==
    \/ <>[](pc[t] # "handler")
    \/ []<><<pc[t] = "handler" /\ Settles(t) /\ UNCHANGED hist>>_vars

FairLive ==
    \A t \in Ids :
        /\ WF_vars(ProcessTask(t) /\ UNCHANGED hist)
        /\ WF_vars(Resume(t) /\ UNCHANGED hist)
        /\ WF_vars(SleepDone(t) /\ UNCHANGED hist)
        /\ WF_vars(\E raised \in BOOLEAN : CallbackReturns(t, raised) /\ UNCHANGED hist)
        /\ HandlerSettles(t)

SpecLive == Init /\ [][NextLive]_vars /\ FairLive

\* ========================================================== the properties
InTable(t) == events[t] # NoTask

\* C1: every change of a task's state made by update_state, mark_failed or
\* retry follows an edge of STATE_TRANSITIONS, and update_state(new) with new
\* outside the allowed set of the current state raises and leaves the state
\* as it was.
C1_TransitionsFollowTable ==
    /\ task.state # call.before.state => task.state \in STATE_TRANSITIONS[call.before.state]
    /\ (call.op = "update_state" /\ call.arg \notin STATE_TRANSITIONS[call.before.state])
          => (call.raised /\ task.state = call.before.state)
    /\ call.raised => task.state = call.before.state

\* an off-table update_state was attempted on a task that had already moved
C1_Witness ==
    /\ call.op = "update_state"
    /\ call.before.state = DOWNLOADING
    /\ call.arg = COMPLETED
    /\ call.raised
    /\ task.state = DOWNLOADING

\* The table as the design states it (DOWNLOADED is its TRANSFERRING,
\* POST_PROCESSING its CLEANING_UP): no edge from CLEANING_UP to CANCELLED.
ClaimedTransitions == [s \in DownloadState |->
    CASE s = PENDING -> {DOWNLOADING, FAILED, CANCELLED}
      [] s = DOWNLOADING -> {DOWNLOADED, FAILED, CANCELLED}
      [] s = DOWNLOADED -> {POST_PROCESSING, FAILED, CANCELLED}
      [] s = POST_PROCESSING -> {COMPLETED, FAILED}
      [] s = COMPLETED -> {}
      [] s = FAILED -> {PENDING}
      [] s = CANCELLED -> {PENDING}]

\* C2: the transition table is exactly the claimed one: update_state(new)
\* succeeds from a state exactly when new is in the claimed set of that state.
C2_TableAsClaimed ==
    call.op = "update_state" => (call.raised <=> call.arg \notin ClaimedTransitions[call.before.state])

\* C3: a task in a terminal state is in the table only while _finalize_task
\* runs its callbacks, or during the delay its last handler asked for, or
\* after its coroutine was cancelled at one of these points; it is not
\* removed while a callback is still to return; once removed it is never in
\* the table again and no handler, sleep or permit wait of it exists; when its
\* coroutine has ended normally it is removed; a handler runs only for a task
\* of the table whose state is not terminal.
C3_RemovedAfterCallbacks ==
    \A t \in Ids :
        /\ (InTable(t) /\ events[t].state \in TerminalStates)
              => pc[t] \in {"callbacks", "cancelled", "sleep"}
        /\ pc[t] = "callbacks" => (InTable(t) /\ ~removed[t] /\ events[t].state \in TerminalStates
                                   /\ cb[t].idx \in 1..Len(CallbackList(cb[t].list)))
        /\ removed[t] => (~InTable(t) /\ pc[t] \in {"done", "gone"} /\ final[t].state \in TerminalStates)
        /\ pc[t] = "done" => removed[t]
        /\ pc[t] = "handler" => (InTable(t) /\ events[t].state \in HandlerStates)

\* C4: no snapshot written holds a task in a terminal state, so the table a
\* restart would load (and the one it did load) holds no task that is
\* terminal in the table, was taken by _finalize_task or was removed.
C4_SnapshotsHoldNoTerminalTask ==
    /\ ~wrote_terminal
    /\ ~HoldsTerminal(state_file)
    /\ \A t \in Ids :
          ((InTable(t) /\ events[t].state \in TerminalStates) \/ removed[t] \/ final[t] # NoFinal)
             => (t \notin DOMAIN state_file /\ load_state(state_file)[t] = NoTask)

\* a completion callback is running while another task is still in the file
C4_Witness ==
    \E t, u \in Ids : /\ pc[t] = "callbacks" /\ events[t].state = COMPLETED
                      /\ t \notin DOMAIN state_file /\ u \in DOMAIN state_file

\* C5: at every suspension point the record the state file holds for each
\* non-terminal task of the table is the task as it is in memory.
C5_SnapshotCurrent ==
    \A t \in Ids :
        (InTable(t) /\ events[t].state \notin TerminalStates)
           => (t \in DOMAIN state_file /\ from_dict(state_file[t]).ok
               /\ from_dict(state_file[t]).task = events[t])

\* a task is inside a later handler after a retry, and the file has followed
C5_Witness ==
    \E t \in Ids : /\ pc[t] = "handler" /\ events[t].state = DOWNLOADING
                   /\ events[t].retry_count = 1
                   /\ state_file[t].state = "downloading" /\ state_file[t].retry_count = 1

\* the callback lists run for a task, and what the error callbacks are handed
CallbacksRunOnce(t) ==
    /\ ran[t].complete + ran[t].error <= 1
    /\ ran[t].complete = 1 <=> final[t].state = COMPLETED
    /\ ran[t].error = 1 <=> final[t].state = FAILED
    /\ final[t].state = FAILED => (final[t].retry_count >= final[t].max_retries /\ fails[t] >= 1)
    /\ final[t].state \in {None, COMPLETED, FAILED}
    /\ pc[t] = "callbacks" => (/\ cb[t].list = "complete" <=> events[t].state = COMPLETED
                               /\ cb[t].list = "error" <=> events[t].state = FAILED
                               /\ ran[t][cb[t].list] = 1)

\* C6: exactly one list is run, once, on_complete iff COMPLETED,
\* on_error iff failed with no retry left, a retried failure runs none, and
\* the error callbacks receive the message of the final failure.
C6_CallbacksOnceWithFailureMessage ==
    \A t \in Ids :
        /\ CallbacksRunOnce(t)
        /\ (pc[t] = "callbacks" /\ cb[t].list = "error") => cb[t].msg = events[t].error_message

\* C7: the adapter's on_failed hook is called once for every failure of a
\* task's handler chain.
C7_OnFailedOncePerFailure == \A t \in Ids : on_failed_calls[t] = fails[t]

\* the tasks that hold a permit of the pool
PermitHolders == {t \in Ids : pc[t] \in {"granted", "handler", "sleep", "callbacks"}}

\* C8: never more than MaxConcurrent tasks are inside a handler; the permits
\* out and the free ones add up to the pool size; every queued task waits.
C8_PermitBound ==
    /\ Cardinality({t \in Ids : pc[t] = "handler"}) <= MaxConcurrent
    /\ sem_value >= 0
    /\ Cardinality(PermitHolders) + sem_value = MaxConcurrent
    /\ \A i \in 1..Len(sem_waiters) : pc[sem_waiters[i]] = "wait_sem"
    /\ \A t \in Ids : pc[t] = "wait_sem" => \E i \in 1..Len(sem_waiters) : sem_waiters[i] = t

\* the pool is exhausted by tasks inside handlers and one more task waits
C8_Witness ==
    /\ Cardinality({t \in Ids : pc[t] = "handler"}) = MaxConcurrent
    /\ \E t \in Ids : pc[t] = "wait_sem" /\ InTable(t)

\* C9: a task with max_retries = N is granted at most N retries and fails at
\* most N+1 times; when it is finalized as failed it has failed N+1 times, was
\* granted exactly N retries, is FAILED with can_retry() false, a further
\* retry() raises and changes nothing, and no handler is started for it again.
C9_RetriesExhausted ==
    \A t \in Ids :
        /\ InTable(t) => (/\ retries_granted[t] = events[t].retry_count
                          /\ fails[t] <= events[t].max_retries + 1)
        /\ final[t].state = FAILED =>
              (/\ fails[t] = final[t].max_retries + 1
               /\ retries_granted[t] = final[t].max_retries
               /\ final[t].retry_count = final[t].max_retries
               /\ pc[t] \in {"callbacks", "done", "cancelled", "gone"}
               /\ InTable(t) => (/\ events[t].state = FAILED
                                 /\ ~can_retry(events[t])
                                 /\ retry(events[t]) = [task |-> events[t], raised |-> TRUE]))

\* a task with the largest limit used all its retries and is finalized as failed
C9_Witness ==
    \E t \in Ids : /\ final[t] = [state |-> FAILED, retry_count |-> MaxRetries, max_retries |-> MaxRetries]
                   /\ fails[t] = MaxRetries + 1 /\ InTable(t) /\ pc[t] = "callbacks"

\* C10: retry_count <= max_retries in every task of the table, in every
\* record of the state file and in the table a restart would load.
C10_RetryCountBounded ==
    /\ \A t \in Ids : InTable(t) => events[t].retry_count <= events[t].max_retries
    /\ \A t \in DOMAIN state_file : state_file[t].retry_count <= state_file[t].max_retries
    /\ \A t \in Ids : load_state(state_file)[t].retry_count <= load_state(state_file)[t].max_retries

\* a recovered task that had used its last retry before the restart
C10_Witness ==
    \E t \in Ids : /\ pc[t] = "scheduled" /\ events[t].max_retries >= 1
                   /\ events[t].retry_count = events[t].max_retries
                   /\ retries_granted[t] = events[t].max_retries
                   /\ events[t].max_retries = MaxRetries /\ fails[t] = MaxRetries

\* C11: retry() on a task that is not FAILED or has retry_count >= max_retries
\* raises and leaves state, retry_count and error_message as they were;
\* otherwise it adds exactly one to retry_count, clears the error message and
\* sets the state to PENDING.
C11_RetryGuarded ==
    call.op = "retry" =>
        IF call.before.state = FAILED /\ call.before.retry_count < call.before.max_retries
        THEN /\ ~call.raised
             /\ task = [call.before EXCEPT !.retry_count = call.before.retry_count + 1,
                                           !.error_message = None, !.state = PENDING]
        ELSE call.raised /\ task = call.before

\* retry() was refused on a CANCELLED task that had a retry left
C11_Witness ==
    /\ call.op = "retry" /\ call.raised
    /\ call.before.state = CANCELLED /\ call.before.retry_count < call.before.max_retries
    /\ task = call.before

\* C13: is_downloading(r) answers true exactly when the table holds a task
\* whose download_url is r's, whatever the titles, the state of that task and
\* the point its coroutine has reached.
C13_IsDownloadingByUrl ==
    [][asked' # asked =>
          (asked'.answer <=> \E t \in Ids : /\ InTable(t)
                                            /\ events[t].resource_info.download_url
                                                  = asked'.resource_info.download_url)]_vars

\* the answer was true for a resource whose URL is that of a task waiting for
\* a permit under another title, while no task of the table has its title
C13_Witness ==
    /\ asked = [resource_info |-> Resource2, answer |-> TRUE]
    /\ \E t \in Ids : pc[t] = "wait_sem" /\ events[t].resource_info = Resource1
    /\ \A t \in Ids : InTable(t) => events[t].resource_info.title # Resource2.title

\* C12: download() puts a new PENDING task into the table and persists it
\* before a handler runs for it; while the call is running the task is in
\* the table; the call ends by returning, after the task reached a terminal
\* state and was finalized, true when that state is COMPLETED and false
\* when it is FAILED or CANCELLED.
C12_DownloadReturnsCompleted ==
    \A t \in Ids :
        /\ returned[t] = "running" =>
              (/\ InTable(t)
               /\ events[t].state \notin TerminalStates
                     => (t \in DOMAIN state_file /\ state_file[t] = to_dict(events[t])))
        /\ (returned[t] # "none" /\ InTable(t) /\ events[t].state \in TerminalStates)
              => returned[t] \in {"running", "cancelled"}
        /\ returned[t] \in {"true", "false", "raised"} =>
              (/\ final[t].state \in TerminalStates
               /\ returned[t] = Ret(final[t].state = COMPLETED))


\* ---- the record of a single download() call (SpecTrace) ----

Way == <<PENDING, DOWNLOADING, DOWNLOADED, POST_PROCESSING>>

StatesOf(h) == [i \in 1..Len(h) |-> h[i].state]

IdsOf(c) == [i \in 1..Len(c) |-> c[i].id]

AllDone(h) == \A i \in 1..Len(h) : h[i].result = "done"

Count(h, kinds) == Cardinality({i \in 1..Len(h) : h[i].result \in kinds})

\* C14: when every handler returns done, the handlers of PENDING, DOWNLOADING,
\* DOWNLOADED (TRANSFERRING) and POST_PROCESSING (CLEANING_UP) are called in
\* that order, once each; the task then is COMPLETED and no longer in the
\* table, and every on_complete callback was called once (no on_error one).
C14_HappyPath ==
    \A t \in Ids :
        AllDone(handled[t]) =>
            /\ pc[t] = "handler" =>
                   StatesOf(handled[t]) \o <<events[t].state>> = SubSeq(Way, 1, Len(handled[t]) + 1)
            /\ pc[t] \in {"callbacks", "done"} =>
                   /\ StatesOf(handled[t]) = Way
                   /\ final[t].state = COMPLETED
                   /\ cb[t].list \in {"complete", "none"}
            /\ pc[t] = "done" =>
                   /\ ~InTable(t) /\ removed[t]
                   /\ IdsOf(called[t]) = on_complete_cbs
                   /\ \A i \in 1..Len(called[t]) : called[t][i].list = "complete"
                   /\ ran[t] = [complete |-> 1, error |-> 0]
                   /\ returned[t] = "true"
            /\ pc[t] \notin {"none", "handler", "callbacks", "done"} => FALSE

C14_Witness ==
    /\ pc[OneId] = "done" /\ AllDone(handled[OneId]) /\ Len(handled[OneId]) = 4
    /\ Len(on_complete_cbs) = MaxCallbacks /\ Len(called[OneId]) = MaxCallbacks
    /\ Len(on_error_cbs) > 0 /\ ~InTable(OneId)


Failures(h) == Count(h, {"fail", "raise"})

\* C15: a task whose handlers fail k <= max_retries times and then succeed
\* goes on after each failure with retry_count equal to the failures so far,
\* reaches COMPLETED with retry_count = k, and no on_error callback is called.
C15_RetriedThenCompleted ==
    \A t \in Ids :
        /\ pc[t] \in {"handler", "sleep"} =>
               /\ events[t].retry_count = Failures(handled[t])
               /\ Failures(handled[t]) <= events[t].max_retries
        /\ (/\ pc[t] \in {"callbacks", "done"}
            /\ handled[t][Len(handled[t])] = [state |-> POST_PROCESSING, result |-> "done"]) =>
               /\ final[t].state = COMPLETED
               /\ final[t].retry_count = Failures(handled[t])
               /\ Failures(handled[t]) <= final[t].max_retries
               /\ ran[t].error = 0
               /\ \A i \in 1..Len(called[t]) : called[t][i].list = "complete"
               /\ pc[t] = "done" => returned[t] = "true"

\* the PENDING handler failed once, the retry went the whole way
C15_Witness ==
    /\ pc[OneId] = "done" /\ final[OneId].state = COMPLETED /\ final[OneId].retry_count = 1
    /\ handled[OneId][1] = [state |-> PENDING, result |-> "fail"]
    /\ StatesOf(handled[OneId]) = <<PENDING>> \o Way
    /\ Len(called[OneId]) > 0 /\ Len(on_error_cbs) > 0


\* C16: an exception of a handler does to the task what a failed result with
\* that text does (FAILED, the text as message, on to retry-or-finalize), and
\* no result or exception of a handler makes the dispatcher or download()
\* end with an exception.
C16_HandlerFailuresContained ==
    \A t \in Ids :
        /\ pc[t] = "handler" =>
               \A e \in ExceptionTexts :
                   HandlerStep(events[t], [kind |-> "raise", success |-> FALSE, next_state |-> None,
                                           delay_seconds |-> 0, error_message |-> e])
                       = [task |-> [events[t] EXCEPT !.state = FAILED, !.error_message = e],
                          route |-> "failure", saved |-> FALSE]
        /\ pc[t] # "raised"
        /\ returned[t] # "raised"


\* C17: the callbacks of the list are called in the order of registration;
\* whether they return or raise, each of them is called, the task is then
\* removed from the table and download() returns its value.
C17_CallbacksIsolated ==
    \A t \in Ids :
        /\ pc[t] = "callbacks" =>
               /\ IdsOf(called[t]) = SubSeq(CallbackList(cb[t].list), 1, cb[t].idx - 1)
               /\ \A i \in 1..Len(called[t]) : called[t][i].list = cb[t].list
               /\ InTable(t) /\ returned[t] = "running"
        /\ pc[t] = "done" =>
               /\ \/ IdsOf(called[t]) = on_complete_cbs /\ final[t].state = COMPLETED
                  \/ IdsOf(called[t]) = on_error_cbs /\ final[t].state # COMPLETED
               /\ ~InTable(t) /\ removed[t]
               /\ returned[t] = Ret(final[t].state = COMPLETED)

\* the first callback raised, the second was called all the same
C17_Witness ==
    /\ pc[OneId] = "done" /\ removed[OneId] /\ returned[OneId] = "false"
    /\ called[OneId] = <<[list |-> "error", id |-> 1, raised |-> TRUE],
                         [list |-> "error", id |-> 2, raised |-> FALSE]>>


\* ---- recovery and cancellation ----

\* the records of the state file that _load_state keeps
Unfinished(file) == {i \in DOMAIN file : from_dict(file[i]).task.state \notin TerminalStates}

\* C18: a manager constructed outside a running event loop has every
\* non-terminal task of the state file in its table; none of them is scheduled,
\* waits for a permit or has a handler called, until a manager is constructed
\* again.
C18_LoadedNotDispatched ==
    [][\A t \in Ids :
          /\ pc'[t] = "loaded" =>
                 /\ ~running_loop'
                 /\ t \in Unfinished(state_file')
                 /\ events'[t] = from_dict(state_file'[t]).task
                 /\ cb'[t] = NoCb /\ returned'[t] = "none"
                 /\ \A i \in 1..Len(sem_waiters') : sem_waiters'[i] # t
          /\ (running_loop /\ ~running_loop') =>
                 /\ t \in Unfinished(state_file) <=> pc'[t] = "loaded"
                 /\ pc'[t] # "scheduled"
                 /\ sem_value' = MaxConcurrent
          /\ pc[t] = "loaded" =>
                 \/ pc'[t] = "loaded" /\ events'[t] = events[t]
                 \/ pc'[t] = "scheduled" /\ running_loop' /\ events' = load_state(state_file)
      ]_vars

\* two unfinished tasks were loaded outside an event loop and stay as they are
C18_Witness ==
    /\ ~running_loop
    /\ \A t \in Ids : pc[t] = "loaded"
    /\ \E t \in Ids : events[t].state = DOWNLOADING /\ state_file[t].state = "downloading"


\* C19: a manager constructed inside a running event loop schedules one
\* coroutine for every non-terminal record of the state file; the coroutine
\* takes a permit of the pool, or waits for one, as that of a submitted task
\* does, and the first handler called is that of the state of the record, for
\* the task as the record holds it (retry_count and extra_data included).
C19_RecoveredResumed ==
    [][\A t \in Ids :
          /\ (pc'[t] = "scheduled" /\ pc[t] # "scheduled") =>
                 /\ running_loop'
                 /\ events' = load_state(state_file)
                 /\ \A i \in Ids : i \in Unfinished(state_file) <=> pc'[i] = "scheduled"
          /\ pc'[t] = "scheduled" =>
                 /\ t \in Unfinished(state_file')
                 /\ events'[t] = from_dict(state_file'[t]).task
          /\ pc[t] = "scheduled" =>
                 \/ pc'[t] = "scheduled" /\ events'[t] = events[t]
                 \/ pc'[t] = "handler" /\ sem_value > 0 /\ sem_value' = sem_value - 1
                 \/ pc'[t] = "wait_sem" /\ sem_value = 0 /\ sem_waiters' = Append(sem_waiters, t)
                 \/ pc'[t] = "cancelled"
                 \/ pc'[t] = "loaded" /\ ~running_loop'
          /\ (pc[t] \in {"scheduled", "wait_sem", "granted"} /\ pc'[t] = "handler") =>
                 /\ events'[t] = events[t]
                 /\ events[t] = from_dict(state_file[t]).task
                 /\ events[t].state \in HandlerStates
          /\ Cardinality({i \in Ids : pc'[i] \in {"granted", "handler", "sleep", "callbacks"}})
                 + sem_value' = MaxConcurrent
      ]_vars

\* two tasks were recovered: the handler of DOWNLOADING is called for the one,
\* as its record says, after a retry and with the entry its handler had
\* written; the other waits for the permit
C19_Witness ==
    \E t, u \in Ids :
        /\ pc[t] = "handler" /\ returned[t] = "none" /\ pc[u] = "wait_sem" /\ returned[u] = "none"
        /\ events[t].state = DOWNLOADING /\ events[t].retry_count = 1
        /\ events[t].extra_data = {"task_id"}
        /\ state_file[t] = to_dict(events[t])


\* C20: when the coroutine of a task is cancelled inside a handler or during
\* the delay of a poll, the state file is written with the task as it is at
\* that moment (if its state is not a terminal one), so that a new manager
\* loads it as it is; the task is not marked failed and no retry is counted.
C20_CancelledSaved ==
    [][\A t \in Ids :
          (pc[t] \in {"handler", "sleep"} /\ pc'[t] = "cancelled") =>
              /\ events'[t] = events[t]
              /\ fails'[t] = fails[t] /\ retries_granted'[t] = retries_granted[t]
              /\ ran'[t] = ran[t] /\ final'[t] = final[t]
              /\ returned'[t] \in {"cancelled", "none"}
              /\ events[t].state \notin TerminalStates =>
                     /\ t \in DOMAIN state_file'
                     /\ state_file'[t] = to_dict(events[t])
                     /\ load_state(state_file')[t] = events[t]
      ]_vars

\* the task was cancelled during the delay of a poll of the PENDING handler,
\* which had put its entry into extra_data: the file has the entry
C20_Witness ==
    \E t \in Ids :
        /\ pc[t] = "cancelled" /\ returned[t] = "cancelled"
        /\ events[t].state = PENDING /\ events[t].retry_count = 0
        /\ events[t].extra_data = {"task_id"}
        /\ state_file[t] = to_dict(events[t])
        /\ \A u \in Ids \ {t} : pc[u] = "none"


\* ---- the state file as it is found (SpecLoad) ----

Found == call.arg

\* the current state a label stands for: its own, or the one that was renamed
EquivalentState(l) ==
    CASE l = "transferring" -> DOWNLOADED
      [] l = "cleaning_up" -> POST_PROCESSING
      [] OTHER -> StateOfValue(l).state

\* C21: every record of a readable file yields a task, whatever its state
\* label; a renamed label gives the state it stands for, and the record is in
\* the table after the construction when that state is not a terminal one.
C21_LabelsTolerated ==
    (call.op = "construct" /\ Found.exists /\ Found.parses) =>
        \A i \in DOMAIN Found.data :
            /\ from_dict(Found.data[i]).ok
            /\ Found.data[i].state \in RenamedLabels =>
                   /\ from_dict(Found.data[i]).task.state = EquivalentState(Found.data[i].state)
                   /\ InTable(i) /\ events[i].state = EquivalentState(Found.data[i].state)


KnownLabels == {StateValue[s] : s \in DownloadState}

TerminalLabels == {StateValue[s] : s \in TerminalStates}

TableEmpty == \A i \in Ids : ~InTable(i)

\* C23: the construction of a manager ends without an exception whatever the
\* state file is; the table is empty after it when the file is missing, cannot
\* be parsed, or holds a record that does not deserialize, and holds exactly
\* the non-terminal records of the file otherwise.
C23_LoadAllOrNothing ==
    call.op = "construct" =>
        /\ ~call.raised
        /\ ~Found.exists => TableEmpty
        /\ (Found.exists /\ ~Found.parses) => TableEmpty
        /\ (Found.exists /\ Found.parses) =>
               IF \E i \in DOMAIN Found.data : Found.data[i].state \notin KnownLabels
               THEN TableEmpty
               ELSE \A i \in Ids :
                        /\ InTable(i) <=> (i \in DOMAIN Found.data
                                           /\ Found.data[i].state \notin TerminalLabels)
                        /\ InTable(i) => to_dict(events[i]) = Found.data[i]

\* a file with a good record and one that does not deserialize: nothing loaded
C23_Witness ==
    /\ call.op = "construct" /\ Found.exists /\ Found.parses /\ TableEmpty
    /\ \E i, j \in DOMAIN Found.data :
           Found.data[i].state = "downloading" /\ Found.data[j].state = "bogus"


\* C22: from_dict(to_dict(task)) does not raise and yields a task with the
\* id, the state, the resource (quality and languages included), extra_data,
\* retry_count and max_retries of the task, in every state.
C22_RoundTrip ==
    call.op = "from_dict" =>
        /\ ~call.raised
        /\ task.id = call.before.id
        /\ task.state = call.before.state
        /\ task.resource_info = call.before.resource_info
        /\ task.extra_data = call.before.extra_data
        /\ task.retry_count = call.before.retry_count
        /\ task.max_retries = call.before.max_retries

\* a task in a later state with a quality, languages and an entry of its own
C22_Witness ==
    /\ call.op = "from_dict" /\ task.state = POST_PROCESSING
    /\ call.arg.state = "processing" /\ call.arg.resource_info.quality = "1080p"
    /\ task.resource_info.quality = "k1080p"
    /\ task.resource_info.languages = <<"kChs", "kJp">>
    /\ task.extra_data = {"task_id"} /\ task.retry_count = MaxRetries


\* ------------------------------------------------- the client (SpecClient)
\* the calls that have passed the client's gate and not left it
Holding == {c \in Calls : req[c].pc \in {"attempt", "backoff"}}

Granted == {c \in Calls : req[c].pc = "granted"}

\* C24: at most max_concurrent_requests calls of a client are between
\* acquiring and releasing its gate, a call that sleeps before its next
\* attempt being one of them, whatever the manager's tasks do; and the gate
\* is another pool than the manager's: the permits of each are accounted for
\* separately, and no step takes or gives a permit of both.
C24_ClientGate ==
    /\ [](/\ Cardinality(Holding) <= MaxConcurrentRequests
          /\ client_sem >= 0
          /\ Cardinality(Holding) + Cardinality(Granted) + client_sem = MaxConcurrentRequests)
    /\ [][/\ req' # req => sem_value' = sem_value /\ sem_waiters' = sem_waiters
          /\ sem_value' # sem_value => client_sem' = client_sem /\ client_waiters' = client_waiters]_vars

\* the gate is full, one of its holders asleep, a call waits; the manager's
\* pool is exhausted too, with a task waiting for it
C24_Witness ==
    /\ Cardinality(Holding) = MaxConcurrentRequests
    /\ \E c \in Holding : req[c].pc = "backoff"
    /\ client_waiters # << >>
    /\ sem_value = 0 /\ sem_waiters # << >>

\* C25: a request makes at most max(1, max_retries) attempts; the k-th
\* network failure that leaves attempts is followed by a sleep of
\* retry_backoff_seconds * 2^(k-1); another error ends the request at that
\* attempt; nothing is slept after the last attempt; a request whose every
\* attempt failed returns None.
C25_RequestAttempts ==
    /\ client_max_retries = (IF client_configured > 1 THEN client_configured ELSE 1)
    /\ \A c \in Calls :
        LET r == req[c] IN
        /\ r.attempt <= client_max_retries
        /\ \A k \in DOMAIN r.slept : r.slept[k] = RetryBackoff * 2^(k - 1)
        /\ \A k \in DOMAIN r.slept : r.errors[k] = "network"
        /\ \A k \in DOMAIN r.errors :
               r.errors[k] = "other" => k = Len(r.errors) /\ r.pc = "done" /\ r.result = None
        /\ r.pc = "attempt" => Len(r.slept) = r.attempt - 1 /\ Len(r.errors) = r.attempt - 1
        /\ r.pc = "backoff" =>
               Len(r.slept) = r.attempt /\ Len(r.errors) = r.attempt /\ r.attempt < client_max_retries
        /\ r.pc = "done" =>
               /\ Len(r.slept) = r.attempt - 1
               /\ r.result \in {"json", None}
               /\ r.result = None <=> Len(r.errors) = r.attempt
               /\ (r.result = None /\ r.errors[r.attempt] = "network") => r.attempt = client_max_retries

\* a request that was tried as often as allowed, slept 0.8 s, 1.6 s, ..., and
\* gave up;
\* one that ended at once on another error
C25_Witness ==
    /\ client_configured = ClientMaxRetries
    /\ \E c \in Calls :
           /\ req[c].pc = "done" /\ req[c].result = None /\ req[c].attempt = ClientMaxRetries
           /\ Len(req[c].slept) = ClientMaxRetries - 1 /\ req[c].slept[2] = 2 * RetryBackoff
    /\ \E c \in Calls :
           req[c].pc = "done" /\ req[c].errors = <<"other">> /\ req[c].slept = << >>


\* ------------------------------------------------------- polling (SpecTrace)
Last(h) == h[Len(h)]

\* the calls of the handler of the state of the i-th call, up to that call
CallsIn(h, i) == {j \in 1..i : h[j].state = h[i].state}

\* C26: a poll result leaves the task as it is: no transition is made (so no
\* invalid transition of a state to itself is raised), nothing is written;
\* the dispatcher sleeps when a delay is given and calls the handler of the
\* same state again, so that a handler which polls k times and then returns
\* done was called exactly k + 1 times in that state.
C26_PollKeepsState ==
    /\ [][\A t \in Ids :
            (Len(handled'[t]) = Len(handled[t]) + 1 /\ Last(handled'[t]).result = "poll") =>
                /\ events'[t] = events[t]
                /\ state_file' = state_file
                /\ pc'[t] \in {"sleep", "handler"}]_vars
    /\ [][\A t \in Ids :
            (pc[t] = "sleep" /\ pc'[t] # "sleep") =>
                pc'[t] = "handler" /\ events'[t] = events[t]]_vars
    /\ [](\A t \in Ids : \A i \in 1..Len(handled[t]) :
            LET h == handled[t] IN
            /\ (h[i].result = "poll" /\ i < Len(h)) => h[i + 1].state = h[i].state
            /\ (Failures(h) = 0 /\ h[i].result = "done") =>
                   /\ Cardinality(CallsIn(h, i)) =
                          Cardinality({j \in CallsIn(h, i) : h[j].result = "poll"}) + 1
                   /\ \A j \in (i + 1)..Len(h) : h[j].state # h[i].state)

\* the handler of PENDING polled twice before it was done: three calls
C26_Witness ==
    \E t \in Ids :
        /\ Len(handled[t]) >= 4
        /\ SubSeq(handled[t], 1, 4) =
               <<[state |-> PENDING, result |-> "poll"], [state |-> PENDING, result |-> "poll"],
                 [state |-> PENDING, result |-> "done"], [state |-> DOWNLOADING, result |-> "poll"]>>
        /\ pc[t] = "sleep" /\ events[t].state = DOWNLOADING /\ events[t].error_message = None


\* ------------------------------------- off-table results (SpecOffTable)
\* C27: when the result of a handler names a state that the table does not
\* allow after the task's state, the invalid-transition error is raised out
\* of the dispatcher (it is not turned into something else), the task keeps
\* the state it had, and the state file is left as it was.
C27_InvalidTransitionRaised ==
    [][\A t \in Ids :
          (Len(handled'[t]) = Len(handled[t]) + 1 /\ Last(handled'[t]).result = "off-table") =>
              /\ pc'[t] = "raised"
              /\ InTable(t)' /\ events'[t].state = events[t].state
              /\ state_file' = state_file]_vars


\* ------------------------------------------- the coroutines (SpecContexts)
\* C28: at any time at most one coroutine dispatches a given task, whether it
\* was created by the recovery of the state file or belongs to a download()
\* call; a task whose handler runs, which sleeps or whose callbacks run has
\* exactly one, so no two of them ever work on one task.
C28_OneContextPerTask ==
    \A t \in Ids :
        /\ contexts[t] <= 1
        /\ pc[t] \in Live <=> contexts[t] = 1

\* a recovered task in the hands of its background coroutine while a
\* download() call waits with a task of its own for the same resource
C28_Witness ==
    \E t, u \in Ids :
        /\ pc[t] = "handler" /\ returned[t] = "none" /\ contexts[t] = 1
        /\ pc[u] \in Live /\ returned[u] = "running" /\ contexts[u] = 1
        /\ events[t].resource_info = events[u].resource_info


\* ------------------------------------ on_downloading (SpecDownloading)
HadJob == call.op = "on_downloading" /\ "task_id" \in call.before.extra_data

\* C30: on_downloading returns poll when the job is in the undone list,
\* failed when it is in the done list in another state than Succeeded,
\* failed when it is in neither list, and done only when the job succeeded
\* and a video file that was not there before was found in the temporary
\* directory; with done, downloaded_filename is that file.
C30_OnDownloadingResults ==
    HadJob =>
        /\ call.arg.undone \in {"running", "progressing"} => call.result.status = "poll"
        /\ (call.arg.undone = "absent" /\ call.arg.done \notin {None, "absent", "Succeeded"}) =>
               call.result.status = "failed"
        /\ (call.arg.undone = "absent" /\ call.arg.done = "absent") => call.result.status = "failed"
        /\ call.result.status = "done" =>
               /\ call.arg.undone = "absent" /\ call.arg.done = "Succeeded"
               /\ task.downloaded_filename # None
               /\ \E f \in call.arg.files :
                      /\ f.name = task.downloaded_filename
                      /\ is_video_file(f.name)
                      /\ f.name \notin call.before.initial_files
        /\ call.result.status # "done" => task.downloaded_filename = None

\* done after three transfer checks that found nothing, the larger of the
\* video files being one that was there before
C30_Witness ==
    /\ HadJob /\ call.result.status = "done" /\ Len(call.arg.transfer) = TRANSFER_CHECK_MAX_RETRIES
    /\ call.before.initial_files = {"a.mkv"} /\ call.arg.files = RemoteFiles
    /\ task.downloaded_filename = "sub/b.mp4"
    /\ "_download_progress_bucket" \in task.extra_data

\* the remote job has succeeded and no new video file is in the directory
Undetected ==
    /\ HadJob /\ call.arg.undone = "absent" /\ call.arg.done = "Succeeded"
    /\ call.arg.transfer[Len(call.arg.transfer)] \in {"succeeded", "absent"}
    /\ detect_downloaded_file(call.before, call.arg.files) = None

\* C29: when the remote job has succeeded and the file is never detected,
\* on_downloading polls a bounded number of times only and then fails: the
\* polling does not go on for ever.
C29_UndetectedFileGivesUp ==
    []<>(~Undetected \/ call.result.status = "failed")


\* ------------------------------------------------ mark_failed (SpecTask)
\* C40: mark_failed(message) on a task in COMPLETED, FAILED or CANCELLED,
\* from which FAILED is not allowed, raises the invalid-transition error and
\* leaves every field of the task as it was, error_message included.
C40_MarkFailedRefusedKeepsTask ==
    (call.op = "mark_failed" /\ FAILED \notin STATE_TRANSITIONS[call.before.state]) =>
        /\ call.raised
        /\ task = call.before


\* ------------------------------------------- the handlers (SpecHandlers)
\* on_transferring was called for a task with a downloaded file
Transferred == call.op = "on_transferring" /\ call.before.downloaded_filename # None

\* the rename that this call asked for, as the remote service took it
RenameAsked ==
    remote_rename(call.was, call.before.downloaded_filename, build_final_filename(call.before),
                  call.arg.rename)

Ops(requests) == [i \in 1..Len(requests) |-> requests[i].op]

\* C31: on_transferring creates the destination directory, renames the file
\* in place and moves it, in this order; a rename that fails does not fail
\* the handler: the file is moved under its original name and final_path
\* names it under the name it was moved with; when mkdir or the move fails
\* the handler returns failed and final_path stays unset.
C31_TransferSteps ==
    Transferred =>
        /\ Ops(call.requests) \in {<<"mkdir">>, <<"mkdir", "move">>, <<"mkdir", "rename", "move">>}
        /\ ~call.arg.mkdir => Ops(call.requests) = <<"mkdir">>
        /\ (call.arg.mkdir /\ "rename" \in {call.requests[i].op : i \in 1..Len(call.requests)}
                /\ ~RenameAsked.ok) =>
               /\ call.requests[3].name = call.before.downloaded_filename
               /\ remote_move(call.was, call.before.downloaded_filename, call.arg.move).ok =>
                      call.result.status = "done"
        /\ call.result.status = "done" =>
               task.final_path = [dir |-> "final", name |-> call.requests[Len(call.requests)].name]
        /\ (\/ ~call.arg.mkdir
            \/ ~remote_move(RenameAsked.remote, call.requests[Len(call.requests)].name,
                            call.arg.move).ok) =>
               call.result.status = "failed" /\ task.final_path = None

\* the rename was refused, the file was moved as it was
C31_Witness ==
    /\ Transferred /\ Ops(call.requests) = <<"mkdir", "rename", "move">>
    /\ ~call.arg.rename /\ call.result.status = "done"
    /\ task.final_path = [dir |-> "final", name |-> "a.mkv"]
    /\ \E f \in remote.final : f.name = "a.mkv"

\* C38: when the downloaded file lies in a subdirectory of the temporary
\* directory and the rename in place succeeds, the move is asked for a
\* directory and a name under which the file is, and final_path names the
\* place where the file is in the end.
C38_MoveFindsRenamedFile ==
    (Transferred /\ InSub(call.before.downloaded_filename)
        /\ Ops(call.requests) = <<"mkdir", "rename", "move">> /\ RenameAsked.ok) =>
        /\ \E f \in RenameAsked.remote.tmp : f.name = call.requests[3].name
        /\ call.result.status = "done" =>
               \E f \in remote.final : f.name = task.final_path.name


\* C39: whenever the remote service moves the job from the undone list to
\* the done list, before, between or after the two list queries of
\* on_downloading, the handler never fails with "Task not found".
C39_JobNeverLostBetweenLists ==
    call.op = "on_downloading" =>
        ~(call.result.status = "failed" /\ call.result.error_message = "Task not found")

\* the job ended after the undone list was read and before the handler
\* returned: the handler saw it undone and polls
C39_Witness ==
    /\ call.op = "on_downloading"
    /\ call.arg.undone \in {"running", "progressing"}
    /\ call.was.job = "succeeded"
    /\ call.result.status = "poll"


\* on_downloading was called on a retried attempt, the job has succeeded,
\* no transfer is under way and the listing of the temporary directory shows
\* the file of the job
RetriedJobFileListed ==
    /\ call.op = "on_downloading"
    /\ call.before.retry_count > 0
    /\ call.arg.done = "Succeeded"
    /\ \E f \in call.arg.files : f.name = call.was.yields

\* C37: when a failed attempt left its file in the temporary directory, the
\* retried attempt still detects the file of the new job once that job has
\* succeeded: on_downloading does not go on polling for it.
C37_RetryDetectsFile == RetriedJobFileListed => call.result.status # "poll"


\* C32: on_cleaning_up returns done whether the remote removal succeeds or
\* not; on a task without a temporary path it makes no request of the remote
\* service and changes neither the task nor the remote, at every call.
C32_CleanupAlwaysDone ==
    call.op = "on_cleaning_up" =>
        /\ call.result.status = "done"
        /\ call.before.temp_path = None =>
               /\ call.requests = << >>
               /\ task = call.before
               /\ remote = call.was

\* the second call on a task without a temporary path, the files still there
C32_Witness ==
    /\ call.op = "on_cleaning_up" /\ call.n = 2
    /\ task.temp_path = None /\ call.requests = << >>
    /\ remote.tmp # {}


\* --------------------------------------------- snapshots (SpecSnapshots)
\* the task is still going to be dispatched: a handler is to be called for
\* it, or it has failed and has a retry left
ToBeDispatched(tk) == tk.state \in HandlerStates \/ can_retry(tk)

\* C33: from its submission to its finalization, a task that is still going
\* to be dispatched is in the snapshot written last, also between the
\* failure of a handler and the retry: a crash at any instant finds it in the
\* state file.
C33_SnapshotHoldsLiveTask ==
    (call.then # "new" /\ ToBeDispatched(task)) => task.id \in DOMAIN state_file


\* ------------------------------------------------- the worker (SpecWorker)
\* C34: when every submission goes through the dispatch worker (the entry is
\* skipped if is_downloading is true, a download is started in the
\* background otherwise), the table never holds two tasks with the same
\* download_url, also when the same URL is queued twice in a row.
C34_OneTaskPerUrl ==
    \A i, j \in Present(events) :
        events[i].resource_info.download_url = events[j].resource_info.download_url => i = j


\* ------------------------------------------- nested dispatch (SpecDepth)
\* C35: the dispatcher puts no limit on the polls of a task, and a poll adds
\* nothing to the work the dispatcher keeps pending for the task: the number
\* of nested _dispatch_state calls does not grow with the number of polls.
C35_PollAddsNoDepth == [][call'.op = "poll" => call'.depth = call.depth]_vars


\* ------------------------------------------------ fair runs (SpecLive)
\* task t has been finalized: its callbacks were run and it left the table
Finalized(t) == ~InTable(t) /\ ran[t].complete + ran[t].error >= 1

====
